---- MODULE Spec2Model ----
(***************************************************************************)
(* Model of the Google-Drive document chat application: the ingestion      *)
(* route (GET /api/ingest), its progress tracker, the session store, the   *)
(* chat route (POST /api/chat) with its provider fallback loop, the LLM    *)
(* provider factory with its re-enable timers, and the health route.       *)
(*                                                                         *)
(* Every request handler is split at its await points: one action is the   *)
(* code that runs between two awaits, so the interleavings of the model    *)
(* are those of the single-threaded event loop.                            *)
(***************************************************************************)
EXTENDS Naturals, Integers, Sequences, FiniteSets, TLC

(***************************************************************************)
(* Bounds of the model and small input sets.                               *)
(***************************************************************************)
MaxFiles == 2           \* longest folder listing the document source returns
MaxChunks == 2          \* most spans the splitter cuts one file's text into

Sessions == {"s1", "s2"}            \* client-generated session ids
Runs == {"r1", "r2"}                \* slots of the ingestion requests in flight
SerialRuns == {"r1"}                \* the slot used when requests come one after another
MimeTypes == {"application/pdf", "text/plain", "image/png"}
SpanKinds == {"text"}               \* what a span of extracted text holds
MaxPermuted == 3        \* longest index whose rankings are all enumerated

TOTAL_STEPS == 10

VARIABLES
    env,                  \* process.env: which configuration values are set
    sessionVectorStores,  \* Map session id -> vector index (its documents)
    sessionProgress,      \* Map session id -> progress record
    run,                  \* per ingestion request: its position and locals
    providers,            \* LLMProviderFactory.providers: Map name -> descriptor
    timers,               \* pending setTimeout callbacks of markProviderUnavailable
    providersInitialized, \* the chat route's module-level flag
    chat,                 \* per chat request: its position and locals
    health,               \* per health request: its position and locals
    window,               \* per provider: ms left of the cooldowns it was marked with
    touched,              \* per provider: re-enabled or re-created since its last marking
    tmpdir,               \* os.tmpdir(): per temp path, the calls that wrote the file there
    parse,                \* per parseFileContent call: its position, inputs and outcome
    poll,                 \* the reply the progress reader got to its latest request
    route,                \* the retrieval stage of one chat request, search by search
    prompt                \* the prompt configuration cache, its file and the clock

chatVars == <<providers, timers, providersInitialized, chat, health, window, touched>>

extractVars == <<tmpdir, parse>>

vars == <<env, sessionVectorStores, sessionProgress, run, providers, timers,
          providersInitialized, chat, health, window, touched, tmpdir, parse, poll, route, prompt>>

(***************************************************************************)
(* Helpers: JavaScript Map and Array operations.                           *)
(***************************************************************************)
MapHas(m, k) == k \in DOMAIN m

MapSet(m, k, v) == [x \in (DOMAIN m) \cup {k} |-> IF x = k THEN v ELSE m[x]]

Last(s) == s[Len(s)]

Range(s) == {s[i] : i \in 1..Len(s)}

SeqsUpTo(S, n) == UNION {[1..k -> S] : k \in 0..n}

(***************************************************************************)
(* The progress tracker.                                                   *)
(***************************************************************************)
\* Math.floor((step / totalSteps) * 100); for step 0..10 of 10 the floating
\* point product floors to the same integer as the exact quotient.
Percentage(step, totalSteps) == (step * 100) \div totalSteps

\* updateProgress builds the record it stores; currentFile, filesProcessed
\* and totalFiles default to '', 0 and 0 at the call sites that omit them.
ProgressData(step, status, currentFile, filesProcessed, totalFiles) ==
    [currentStep |-> step,
     totalSteps |-> TOTAL_STEPS,
     currentFile |-> currentFile,
     status |-> status,
     filesProcessed |-> filesProcessed,
     totalFiles |-> totalFiles,
     percentage |-> Percentage(step, TOTAL_STEPS)]

NoFile == <<>>          \* the empty string '' that stands for "no current file"

ProgressDefault(step, status) == ProgressData(step, status, NoFile, 0, 0)

\* The progress route: the stored record with its percentage recomputed, or
\* the zeroed "Not started" record when the session has none.
ReadOf(progress) ==
    [progress EXCEPT !.percentage = Percentage(progress.currentStep, progress.totalSteps)]

ProgressGET(sid) ==
    IF MapHas(sessionProgress, sid)
    THEN ReadOf(sessionProgress[sid])
    ELSE ProgressData(0, <<"Not started">>, NoFile, 0, 0)

\* What a progress reader answers: the HTTP status code and the JSON body.
Reply(code, body) == [code |-> code, body |-> body]

\* GET /api/progress?sessionId=sid
ProgressRouteGET(sid) == Reply(200, ProgressGET(sid))

\* POST /api/ingest with {sessionId: sid}: the progress lookup of the ingest
\* route returns the stored record as it is, or 404 when there is none.
ProgressPOST(sid) ==
    IF MapHas(sessionProgress, sid)
    THEN Reply(200, sessionProgress[sid])
    ELSE Reply(404, [error |-> "Progress not found for session"])

\* The session ids a progress request carries: those of the clients, one
\* no ingestion was ever run for, and none at all ("").
PollIds == Sessions \cup {"s3", ""}

NoReply == Reply(0, [error |-> "no request yet"])

\* A progress route that creates the record it does not find.
ProgressReadCreates(sid) ==
    /\ poll' = IF sid = "" THEN Reply(400, [error |-> "Session ID is required"])
               ELSE ProgressRouteGET(sid)
    /\ sessionProgress' = IF sid = "" \/ MapHas(sessionProgress, sid) THEN sessionProgress
                          ELSE MapSet(sessionProgress, sid,
                                      ProgressData(0, <<"Not started">>, NoFile, 0, 0))
    /\ UNCHANGED <<env, sessionVectorStores, run, chatVars, tmpdir, parse, route, prompt>>

\* One request to GET /api/progress: 400 without a session id, else the
\* record or the default; the handler writes nothing.
ProgressRead(sid) ==
    /\ poll' = IF sid = "" THEN Reply(400, [error |-> "Session ID is required"])
               ELSE ProgressRouteGET(sid)
    /\ UNCHANGED <<env, sessionVectorStores, sessionProgress, run, chatVars, tmpdir, parse, route, prompt>>

\* One request to the progress lookup of POST /api/ingest.
ProgressLookup(sid) ==
    /\ poll' = IF sid = "" THEN Reply(400, [error |-> "Session ID is required"])
               ELSE ProgressPOST(sid)
    /\ UNCHANGED <<env, sessionVectorStores, sessionProgress, run, chatVars, tmpdir, parse, route, prompt>>

(***************************************************************************)
(* The content extractor, the splitter and the chunk tagging.              *)
(* A text is modelled as the sequence of the spans (each at most chunkSize *)
(* characters) the splitter cuts it into; the blank text is <<>>.          *)
(***************************************************************************)
Texts == SeqsUpTo(SpanKinds, MaxChunks)

\* What a decoder (PDFLoader, mammoth, XLSX, Buffer.toString) does with the
\* bytes of one file: it returns a text or it throws.
DecodeResults == [throws : {FALSE}, text : Texts] \cup {[throws |-> TRUE, text |-> <<>>]}

\* parseFileContent: never throws. A decoder failure gives the
\* "[Error parsing file: ...]" placeholder, an unknown MIME type the
\* "[File: ... Manual review needed]" placeholder; both are one short span.
parseFileContent(mimeType, decoded) ==
    IF mimeType \in {"application/pdf", "text/plain"}
    THEN IF decoded.throws THEN <<"error-placeholder">> ELSE decoded.text
    ELSE <<"review-placeholder">>

\* chunks.map((chunk, index) => new Document({...})) for one file.
TagChunks(file, chunks) ==
    [k \in 1..Len(chunks) |->
        [pageContent |-> chunks[k],
         fileName |-> file.name,
         fileId |-> file.id,
         chunkIndex |-> k - 1,
         totalChunks |-> Len(chunks)]]

(***************************************************************************)
(* The document source: drive.files.list returns up to MaxFiles files;     *)
(* the k-th file of the folder has id k.  File ids are unique, file names  *)
(* need not be: the files are named <<"file", 1>>, <<"file", 2>>, ..., and *)
(* in a folder of two files both may carry the same name.                  *)
(***************************************************************************)
FileName(k) == <<"file", k>>

Namings(n) ==
    {[k \in 1..n |-> k]} \cup IF n = 2 THEN {[k \in 1..n |-> 1]} ELSE {}

Listings ==
    UNION {{[k \in 1..n |-> [id |-> k, name |-> FileName(names[k])]] :
                names \in Namings(n)} : n \in 0..MaxFiles}

(***************************************************************************)
(* Ingestion requests (GET /api/ingest).                                   *)
(***************************************************************************)
NoResponse == [status |-> 0, kind |-> "none", totalChunks |-> 0, files |-> 0]

Response(status, kind, totalChunks, files) ==
    [status |-> status, kind |-> kind, totalChunks |-> totalChunks, files |-> files]

IdleRun ==
    [pc |-> "idle", sid |-> "s1", files |-> <<>>, i |-> 0, allDocuments |-> <<>>,
     written |-> <<>>, results |-> <<>>, remoteCalls |-> 0, response |-> NoResponse]

\* The validation that does not look at the folder id.
ConfigPresentButFolder ==
    /\ env.GOOGLE_CLIENT_EMAIL
    /\ env.GOOGLE_PRIVATE_KEY
    /\ env.GEMINI_API_KEY

ConfigPresent ==
    /\ env.GOOGLE_CLIENT_EMAIL
    /\ env.GOOGLE_PRIVATE_KEY
    /\ env.GOOGLE_DRIVE_FOLDER_ID
    /\ env.GEMINI_API_KEY

\* The run's state after it has called updateProgress for each record of
\* `recs` in turn, and the progress map after those calls.
Wrote(rs, recs) == [rs EXCEPT !.written = rs.written \o recs]

\* updateProgress that stores the record under every session id in use.
ProgressAfterShared(sid, recs) ==
    IF recs = <<>> THEN sessionProgress
    ELSE [x \in (DOMAIN sessionProgress) \cup {sid} |-> Last(recs)]

\* updateProgress that keeps the status of the record it overwrites.
ProgressAfterMerging(sid, recs) ==
    IF recs = <<>> THEN sessionProgress
    ELSE MapSet(sessionProgress, sid,
                IF MapHas(sessionProgress, sid)
                THEN [Last(recs) EXCEPT !.status = sessionProgress[sid].status]
                ELSE Last(recs))

\* updateProgress that stores nothing.
ProgressAfterNothing(sid, recs) == sessionProgress

ProgressAfter(sid, recs) ==
    IF recs = <<>> THEN sessionProgress ELSE MapSet(sessionProgress, sid, Last(recs))

\* A top-level catch that leaves the progress record at the step reached.
CatchUpdateSilent == ProgressDefault(3, <<"Scanning documents in folder...">>)

\* The top-level catch: the error record, the 500 response.
CatchUpdate == ProgressData(0, <<"ERROR: ", "message">>, NoFile, 0, 0)

\* The per-file and final updates written with a wrong step number.
ProcessingUpdateStep3(files, i) ==
    ProgressData(3, <<"Processing: ", files[i + 1].name>>, files[i + 1].name, i, Len(files))

FileErrorUpdateStep4(files, i) ==
    ProgressData(4, <<"Error processing: ", files[i + 1].name>>, files[i + 1].name, i + 1, Len(files))

SuccessUpdateStep8(files, docs) ==
    ProgressDefault(8, <<"Successfully processed", Len(files), Len(docs)>>)

\* The "Processed" update that counts the next file as processed too.
ProcessedUpdateAhead(files, i) ==
    ProgressData(5, <<"Processed: ", files[i + 1].name>>, files[i + 1].name, i + 2, Len(files))

\* The "Processing: <name>" update that opens iteration i (0-based) of the loop.
ProcessingUpdate(files, i) ==
    ProgressData(5, <<"Processing: ", files[i + 1].name>>, files[i + 1].name, i, Len(files))

ProcessedUpdate(files, i) ==
    ProgressData(5, <<"Processed: ", files[i + 1].name>>, files[i + 1].name, i + 1, Len(files))

\* The error update that does not count the failed file.
FileErrorUpdateUncounted(files, i) ==
    ProgressData(5, <<"Error processing: ", files[i + 1].name>>, files[i + 1].name, i, Len(files))

FileErrorUpdate(files, i) ==
    ProgressData(5, <<"Error processing: ", files[i + 1].name>>, files[i + 1].name, i + 1, Len(files))

SuccessUpdate(files, docs) ==
    ProgressDefault(10, <<"Successfully processed", Len(files), Len(docs)>>)

\* sessionVectorStores.has(sessionId), and the same with the lookup never
\* finding the index.
CacheMiss(s) == FALSE

CacheHit(s) == MapHas(sessionVectorStores, s)

\* Request arrives: cache check, first update, configuration validation,
\* updates 1 to 3, then the await of drive.files.list.
IngestStart(r, s) ==
    /\ run[r].pc = "idle"
    /\ IF CacheHit(s)
       THEN /\ run' = [run EXCEPT ![r] =
                        [IdleRun EXCEPT !.pc = "done", !.sid = s,
                                        !.response = Response(200, "ready-cached", 0, 0)]]
            /\ UNCHANGED sessionProgress
       ELSE IF ~ConfigPresent
       THEN LET recs == <<ProgressDefault(0, <<"Initializing connection to Google Drive...">>),
                          ProgressData(0, <<"ERROR: Missing required configuration">>, NoFile, 0, 0)>>
            IN /\ run' = [run EXCEPT ![r] =
                           Wrote([IdleRun EXCEPT !.pc = "done", !.sid = s,
                                                 !.response = Response(500, "config-error", 0, 0)],
                                 recs)]
               /\ sessionProgress' = ProgressAfter(s, recs)
       ELSE LET recs == <<ProgressDefault(0, <<"Initializing connection to Google Drive...">>),
                          ProgressDefault(1, <<"Creating Google Drive authentication...">>),
                          ProgressDefault(2, <<"Connecting to Google Drive API...">>),
                          ProgressDefault(3, <<"Scanning documents in folder...">>)>>
            IN /\ run' = [run EXCEPT ![r] =
                           Wrote([IdleRun EXCEPT !.pc = "listing", !.sid = s], recs)]
               /\ sessionProgress' = ProgressAfter(s, recs)
    /\ UNCHANGED <<env, sessionVectorStores>>

\* A throw of drive.files.list that nothing catches: the request is left
\* without a response and without an update.
ListThrowsUnhandled(r) ==
    /\ run[r].pc = "listing"
    /\ run' = [run EXCEPT ![r].pc = "crashed"]
    /\ UNCHANGED <<env, sessionVectorStores, sessionProgress>>

\* drive.files.list throws (authentication, network): the top-level catch.
ListThrows(r) ==
    /\ run[r].pc = "listing"
    /\ run' = [run EXCEPT ![r] =
                Wrote([run[r] EXCEPT !.pc = "done", !.remoteCalls = @ + 1,
                                     !.response = Response(500, "error", 0, 0)],
                      <<CatchUpdate>>)]
    /\ sessionProgress' = ProgressAfter(run[r].sid, <<CatchUpdate>>)
    /\ UNCHANGED <<env, sessionVectorStores>>

\* drive.files.list returns: the zero-files branch, or updates 4 and 5 and
\* the first iteration's "Processing" update, then the await of the fetch.
ListReturns(r, files) ==
    /\ run[r].pc = "listing"
    /\ IF Len(files) = 0
       THEN LET recs == <<ProgressDefault(10, <<"No documents found in folder">>)>>
            IN /\ run' = [run EXCEPT ![r] =
                           Wrote([run[r] EXCEPT !.pc = "done", !.remoteCalls = @ + 1,
                                                !.response = Response(200, "No files found", 0, 0)],
                                 recs)]
               /\ sessionProgress' = ProgressAfter(run[r].sid, recs)
       ELSE LET recs == <<ProgressData(4, <<"Found documents", Len(files)>>, NoFile, 0, Len(files)),
                          ProgressData(5, <<"Processing documents...">>, NoFile, 0, Len(files)),
                          ProcessingUpdate(files, 0)>>
            IN /\ run' = [run EXCEPT ![r] =
                           Wrote([run[r] EXCEPT !.pc = "file", !.remoteCalls = @ + 1,
                                                !.files = files, !.i = 0],
                                 recs)]
               /\ sessionProgress' = ProgressAfter(run[r].sid, recs)
    /\ UNCHANGED <<env, sessionVectorStores>>

\* What follows iteration i's closing update `rec`, with the documents
\* collected so far: the next iteration's "Processing" update, or, after the
\* last file, the empty-result branch or update 7 and the await of the
\* index construction.
AfterFile(r, rec, docs, result) ==
    LET rs == run[r]
        n == Len(rs.files)
        base == [rs EXCEPT !.remoteCalls = @ + 1, !.allDocuments = docs, !.i = rs.i + 1,
                           !.results = Append(@, result)]
    IN IF rs.i + 1 < n
       THEN LET recs == <<rec, ProcessingUpdate(rs.files, rs.i + 1)>>
            IN /\ run' = [run EXCEPT ![r] = Wrote(base, recs)]
               /\ sessionProgress' = ProgressAfter(rs.sid, recs)
       ELSE IF Len(docs) = 0
       THEN LET recs == <<rec, ProgressDefault(10, <<"No processable content found">>)>>
            IN /\ run' = [run EXCEPT ![r] =
                           Wrote([base EXCEPT !.pc = "done",
                                              !.response = Response(200, "No processable content", 0, 0)],
                                 recs)]
               /\ sessionProgress' = ProgressAfter(rs.sid, recs)
       ELSE LET recs == <<rec, ProgressDefault(7, <<"Creating searchable index", Len(docs)>>)>>
            IN /\ run' = [run EXCEPT ![r] = Wrote([base EXCEPT !.pc = "indexing"], recs)]
               /\ sessionProgress' = ProgressAfter(rs.sid, recs)

\* The per-file failure escaping to the top-level catch instead.
FileFailsAborts(r) ==
    /\ run[r].pc = "file"
    /\ run' = [run EXCEPT ![r] =
                Wrote([run[r] EXCEPT !.pc = "done", !.remoteCalls = @ + 1,
                                     !.response = Response(500, "error", 0, 0)],
                      <<CatchUpdate>>)]
    /\ sessionProgress' = ProgressAfter(run[r].sid, <<CatchUpdate>>)
    /\ UNCHANGED <<env, sessionVectorStores>>

\* Iteration i: drive.files.get throws, or the splitter throws: the
\* per-file catch writes the error update and the loop goes on.
FileFails(r) ==
    /\ run[r].pc = "file"
    /\ AfterFile(r, FileErrorUpdate(run[r].files, run[r].i), run[r].allDocuments,
                 [kind |-> "threw", decodeThrew |-> FALSE, content |-> <<>>])
    /\ UNCHANGED <<env, sessionVectorStores>>

\* Iteration i: the file is fetched, parsed and, if its content is not
\* blank, split and tagged; then the "Processed" update.
FileDone(r, mimeType, decoded) ==
    /\ run[r].pc = "file"
    /\ LET rs == run[r]
           content == parseFileContent(mimeType, decoded)
           docs == IF Len(content) > 0
                   THEN rs.allDocuments \o TagChunks(rs.files[rs.i + 1], content)
                   ELSE rs.allDocuments
       IN AfterFile(r, ProcessedUpdate(rs.files, rs.i), docs,
                    [kind |-> "parsed",
                     decodeThrew |-> decoded.throws /\ content = <<"error-placeholder">>,
                     content |-> content])
    /\ UNCHANGED <<env, sessionVectorStores>>

\* The catch after a build that stored what it had built before it threw.
IndexThrowsStored(r) ==
    /\ run[r].pc = "indexing"
    /\ run' = [run EXCEPT ![r] =
                Wrote([run[r] EXCEPT !.pc = "done",
                                     !.response = Response(500, "error", 0, 0)],
                      <<CatchUpdate>>)]
    /\ sessionProgress' = ProgressAfter(run[r].sid, <<CatchUpdate>>)
    /\ sessionVectorStores' = MapSet(sessionVectorStores, run[r].sid, run[r].allDocuments)
    /\ UNCHANGED env

\* MemoryVectorStore.fromDocuments throws (embedding provider): the catch.
IndexThrows(r) ==
    /\ run[r].pc = "indexing"
    /\ run' = [run EXCEPT ![r] =
                Wrote([run[r] EXCEPT !.pc = "done",
                                     !.response = Response(500, "error", 0, 0)],
                      <<CatchUpdate>>)]
    /\ sessionProgress' = ProgressAfter(run[r].sid, <<CatchUpdate>>)
    /\ UNCHANGED <<env, sessionVectorStores>>

\* The end of a build that writes its updates and does not store the index.
IndexBuiltNotStored(r) ==
    /\ run[r].pc = "indexing"
    /\ LET rs == run[r]
           recs == <<ProgressDefault(9, <<"Finalizing document index...">>),
                     SuccessUpdate(rs.files, rs.allDocuments)>>
       IN /\ run' = [run EXCEPT ![r] =
                      Wrote([rs EXCEPT !.pc = "done",
                                       !.response = Response(200, "ready", Len(rs.allDocuments),
                                                             Len(rs.files))],
                            recs)]
          /\ sessionProgress' = ProgressAfter(rs.sid, recs)
    /\ UNCHANGED <<env, sessionVectorStores>>

\* The index is built: update 9, the store, the final update, the response.
IndexBuilt(r) ==
    /\ run[r].pc = "indexing"
    /\ LET rs == run[r]
           recs == <<ProgressDefault(9, <<"Finalizing document index...">>),
                     SuccessUpdate(rs.files, rs.allDocuments)>>
       IN /\ run' = [run EXCEPT ![r] =
                      Wrote([rs EXCEPT !.pc = "done",
                                       !.response = Response(200, "ready", Len(rs.allDocuments),
                                                             Len(rs.files))],
                            recs)]
          /\ sessionProgress' = ProgressAfter(rs.sid, recs)
          /\ sessionVectorStores' = MapSet(sessionVectorStores, rs.sid, rs.allDocuments)
    /\ UNCHANGED env

\* The response has been sent; the slot serves the next request.
IngestReturn(r) ==
    /\ run[r].pc = "done"
    /\ run' = [run EXCEPT ![r] = IdleRun]
    /\ UNCHANGED <<env, sessionVectorStores, sessionProgress>>

(***************************************************************************)
(* The LLM provider factory (class LLMProviderFactory) and its re-enable   *)
(* timers.  The registry is a Map provider name -> descriptor; a timer     *)
(* armed by markProviderUnavailable holds the descriptor it was armed on.  *)
(* Once initializeProviders has put a new descriptor into the registry,    *)
(* the callback of a timer armed on the old one writes to an object that   *)
(* nothing reads any more: the state keeps only the timers armed on the    *)
(* descriptors now in the registry.  Time is relative: a timer carries the *)
(* milliseconds left until it fires.                                       *)
(***************************************************************************)
ProviderOrder == <<"gemini", "openai">>

ProviderNames == Range(ProviderOrder)

EnvKey(e, name) == IF name = "gemini" THEN e.GEMINI_API_KEY ELSE e.OPENAI_API_KEY

Factory(p, t) == [providers |-> p, timers |-> t]

\* LLMProviderFactory.initializeProviders: for every provider whose API key
\* is set, a NEW descriptor with isAvailable true replaces the registry entry.
FactoryInitializeProviders(f, e) ==
    Factory([n \in DOMAIN f.providers \cup {m \in ProviderNames : EnvKey(e, m)} |->
                IF EnvKey(e, n) THEN [isAvailable |-> TRUE] ELSE f.providers[n]],
            {t \in f.timers : ~EnvKey(e, t.name)})

\* LLMProviderFactory.getProvider(name) is non-null and isAvailable.
ProviderUsable(p, name) == MapHas(p, name) /\ p[name].isAvailable

\* LLMProviderFactory.getAvailableProviders, as the set of their names.
getAvailableProviders(p) == {n \in DOMAIN p : p[n].isAvailable}

\* LLMProviderFactory.markProviderUnavailable with the flag left untouched.
markProviderKeepsFlag(f, name, durationMs) ==
    IF MapHas(f.providers, name)
    THEN Factory(f.providers,
                 f.timers \cup {[name |-> name, remaining |-> durationMs]})
    ELSE f

\* LLMProviderFactory.markProviderUnavailable without its setTimeout.
markProviderArmsNoTimer(f, name, durationMs) ==
    IF MapHas(f.providers, name)
    THEN Factory([f.providers EXCEPT ![name].isAvailable = FALSE], f.timers)
    ELSE f

\* LLMProviderFactory.markProviderUnavailable: clears the flag of the
\* descriptor now in the registry and arms a timer on that descriptor.
markProviderUnavailable(f, name, durationMs) ==
    IF MapHas(f.providers, name)
    THEN Factory([f.providers EXCEPT ![name].isAvailable = FALSE],
                 f.timers \cup {[name |-> name, remaining |-> durationMs]})
    ELSE f

CHAT_COOLDOWN_MS == 60000

HEALTH_COOLDOWN_MS == 30000

\* The clock advances in steps of the shortest cooldown.
TickMs == HEALTH_COOLDOWN_MS

Earlier(ms) == IF ms > TickMs THEN ms - TickMs ELSE 0

Longer(a, b) == IF a > b THEN a ELSE b

(***************************************************************************)
(* What an LLM call does: it returns a text (possibly the empty string) or *)
(* it throws an error whose message is a sequence of words.                *)
(***************************************************************************)
ErrorMessages ==
    {<<"503", "Service", "Unavailable", "model", "is", "Overloaded">>,
     <<"Quota", "exceeded">>,
     <<"429", "rate", "limit">>,
     <<"timeout", "after", "20s">>}

ProviderOutcomes ==
    [ok : {TRUE}, text : {"answer", ""}, message : {<<>>}]
        \cup [ok : {FALSE}, text : {""}, message : ErrorMessages]

toLowerCase(word) ==
    CASE word = "Overloaded" -> "overloaded"
      [] word = "Quota" -> "quota"
      [] word = "Service" -> "service"
      [] word = "Unavailable" -> "unavailable"
      [] OTHER -> word

\* errorMessage.includes('503') || includes('quota') || includes('overloaded')
\* on the lower-cased message.
IsOverloadError(message) ==
    {toLowerCase(message[i]) : i \in 1..Len(message)} \cap {"503", "quota", "overloaded"} # {}

\* errorMessage.includes(phrase) on the lower-cased message, for a phrase of
\* one or more words.
Includes(message, phrase) ==
    \E i \in 1..(Len(message) - Len(phrase) + 1) :
        \A j \in 1..Len(phrase) : toLowerCase(message[i + j - 1]) = phrase[j]

\* isGeminiOverloaded of LLMProviderFactory.shouldFallbackToProvider, the
\* factory's own list of overload, quota and rate-limit signatures; the chat
\* route does not call it.
isGeminiOverloaded(message) ==
    \E phrase \in {<<"503">>, <<"service", "unavailable">>, <<"overloaded">>,
                    <<"429">>, <<"quota">>, <<"rate", "limit">>} :
        Includes(message, phrase)

(***************************************************************************)
(* The query router of the chat route.  A query is what the four regular   *)
(* expressions of the route find in the last user message; a chunk's       *)
(* pageContent is "id" when it contains the identifier the query names,    *)
(* "partial" when it contains only the identifier's first six digits.      *)
(***************************************************************************)
Queries ==
    {[isOverview |-> o, fileNameMatch |-> f, idMatch |-> e, isGerman |-> g] :
        <<o, f, e, g>> \in {<<FALSE, FALSE, FALSE, FALSE>>, <<TRUE, FALSE, FALSE, FALSE>>,
                            <<FALSE, FALSE, TRUE, FALSE>>, <<FALSE, FALSE, TRUE, TRUE>>,
                            <<FALSE, TRUE, FALSE, FALSE>>}}

searchLimit(q) == IF q.isOverview THEN 12 ELSE IF q.idMatch THEN 8 ELSE 3

Perms(n) == {p \in [1..n -> 1..n] : \A i, j \in 1..n : p[i] = p[j] => i = j}

Min(a, b) == IF a < b THEN a ELSE b

\* vectorStore.similaritySearch(query, k): the k best-ranked documents of the
\* index; the ranking is whatever the embeddings give for this query.
similaritySearch(store, k, ranking) ==
    [i \in 1..Min(k, Len(store)) |-> store[ranking[i]]]

Identity(n) == [i \in 1..n |-> i]

Reverse(n) == [i \in 1..n |-> n + 1 - i]

\* The rankings a search may give: any order of an index of at most
\* MaxPermuted documents; of a longer index the order in which the documents
\* were indexed and its reverse.
Rankings(store) ==
    IF Len(store) <= MaxPermuted
    THEN Perms(Len(store))
    ELSE {Identity(Len(store)), Reverse(Len(store))}

\* doc.metadata.fileName.toLowerCase().includes(searchTerm.toLowerCase()):
\* the term the query names is part of the first file's name only.
fileNameIncludes(doc) == doc.fileName = FileName(1)

\* pageContent.includes(id) || fileName.includes(id) || elevatorIds?.includes(id):
\* no file name holds the identifier and ingestion never sets elevatorIds.
holdsId(doc) == doc.pageContent = "id"

\* The eight alternative terms: 1 the id, 2..5 "elevator id", "lift id",
\* "nr id", "number id", 6 its first six digits, 7 the id without its first
\* digit, 8 the id with a leading zero.
AltTerms == 1..8

altTermMatches(doc, term) ==
    \/ holdsId(doc)
    \/ doc.pageContent = "partial" /\ term = 6

Slice(s, n) == SubSeq(s, 1, Min(n, Len(s)))

\* The file-name escalation (all outcomes over the rankings of the search).
FileEscalation(store, q, docs) ==
    IF q.fileNameMatch /\ ~q.isOverview /\ ~(\E i \in 1..Len(docs) : fileNameIncludes(docs[i]))
    THEN {LET fileMatchedDocs == SelectSeq(similaritySearch(store, 20, p), fileNameIncludes)
          IN  IF Len(fileMatchedDocs) > 0
              THEN fileMatchedDocs \o Slice(docs, 2)
              ELSE docs : p \in Rankings(store)}
    ELSE {docs}

RECURSIVE AltSearch(_, _, _)
\* The loop over the alternative terms, from term on.
AltSearch(store, docs, term) ==
    IF term \notin AltTerms
    THEN {docs}
    ELSE UNION {LET Matches(d) == altTermMatches(d, term)
                    altMatches == SelectSeq(similaritySearch(store, 50, p), Matches)
                IN  IF Len(altMatches) > 0
                    THEN {altMatches \o Slice(docs, 2)}
                    ELSE AltSearch(store, docs, term + 1) : p \in Rankings(store)}

\* The identifier escalation.
EntityEscalation(store, q, docs) ==
    IF q.idMatch /\ ~q.isOverview /\ ~(\E i \in 1..Len(docs) : holdsId(docs[i]))
    THEN UNION {LET elevatorMatchedDocs == SelectSeq(similaritySearch(store, 100, p), holdsId)
                IN  IF Len(elevatorMatchedDocs) > 0
                    THEN {elevatorMatchedDocs \o Slice(docs, 3)}
                    ELSE AltSearch(store, docs, 1) : p \in Rankings(store)}
    ELSE {docs}

\* Every relevantDocs the retrieval stage can end with.
Retrievals(store, q) ==
    UNION {UNION {EntityEscalation(store, q, d2) : d2 \in FileEscalation(store, q, d1)} :
              d1 \in {similaritySearch(store, searchLimit(q), p) : p \in Rankings(store)}}

\* pageContent.length of a chunk.
ContentLength(pageContent) ==
    CASE pageContent = "text" -> 1000
      [] pageContent = "id" -> 800
      [] pageContent = "partial" -> 400
      [] OTHER -> 60

RECURSIVE FileMapOf(_, _)
\* The fileMap after relevantDocs.forEach has run over the first n documents:
\* the values of the Map in insertion order.
FileMapOf(docs, n) ==
    IF n = 0 THEN <<>>
    ELSE LET m == FileMapOf(docs, n - 1)
             doc == docs[n]
             at == {j \in 1..Len(m) : m[j].fileName = doc.fileName}
         IN  IF at = {} THEN Append(m, doc)
             ELSE LET j == CHOOSE k \in at : TRUE
                  IN  IF ContentLength(doc.pageContent) > ContentLength(m[j].pageContent)
                      THEN [m EXCEPT ![j] = doc]
                      ELSE m

\* The overview branch without the slice(0, 10).
ProcessedDocsUncapped(q, docs) ==
    IF q.isOverview THEN FileMapOf(docs, Len(docs)) ELSE docs

ProcessedDocs(q, docs) ==
    IF q.isOverview THEN Slice(FileMapOf(docs, Len(docs)), 10) ELSE docs

\* relevantDocs.map(doc => ({fileName, fileId, pageNumber: chunkIndex + 1}))
Sources(docs) ==
    [i \in 1..Len(docs) |->
        [fileName |-> docs[i].fileName, fileId |-> docs[i].fileId,
         pageNumber |-> docs[i].chunkIndex + 1]]

FileNamesOf(docs) == [i \in 1..Len(docs) |-> docs[i].fileName]

\* The text of a chat answer is a sequence of parts: <<"text", t>> a piece of
\* fixed text, <<"count", n>> a number, and a file name.
\* A fallback synthesis that produces no text.
FallbackSilent(q, processedDocs) == <<>>

\* The text synthesized when the providers failed: for a query that names an
\* identifier the names of the context documents holding it, otherwise the
\* number of context documents.
Fallback(q, processedDocs) ==
    IF q.idMatch
    THEN <<IF q.isGerman THEN <<"text", "Aufzug - Dokumentenanalyse">>
                         ELSE <<"text", "Elevator - Document Analysis">>>>
            \o FileNamesOf(SelectSeq(processedDocs, holdsId))
            \o <<IF q.isGerman THEN <<"text", "Hinweis">> ELSE <<"text", "Note">>>>
    ELSE <<IF q.isGerman THEN <<"text", "Service-Hinweis">> ELSE <<"text", "Service Notice">>,
           <<"count", Len(processedDocs)>>>>

(***************************************************************************)
(* Chat requests (POST /api/chat).                                         *)
(***************************************************************************)
Chats == {"c1"}

NoPayload ==
    [status |-> 0, kind |-> "none", content |-> <<>>, sources |-> <<>>,
     providersAttempted |-> <<>>]

Payload(status, kind, content, sources, providersAttempted) ==
    [status |-> status, kind |-> kind, content |-> content, sources |-> sources,
     providersAttempted |-> providersAttempted]

PlainQuery ==
    [isOverview |-> FALSE, fileNameMatch |-> FALSE, idMatch |-> FALSE, isGerman |-> FALSE]

\* lastError is null when it is <<>>; outcomes records what each invoked
\* provider did, in the order of providersAttempted.
IdleChat ==
    [pc |-> "idle", sid |-> "s1", query |-> PlainQuery, relevantDocs |-> <<>>,
     processedDocs |-> <<>>, idx |-> 0, providersAttempted |-> <<>>,
     outcomes |-> <<>>, lastError |-> <<>>, response |-> NoPayload]

\* The text a provider's successful call assigns to response.
ResponseText(name, text) == IF text = "" THEN <<>> ELSE << <<text, name>> >>

\* The provider loop without the skip: the next position, usable or not.
NextInOrder(p, from) == IF from <= Len(ProviderOrder) THEN from ELSE 0

\* The provider loop from position from on: the first provider that is in
\* the registry and available, 0 when the loop runs out.
NextUsable(p, from) ==
    LET usable == {k \in from..Len(ProviderOrder) : ProviderUsable(p, ProviderOrder[k])}
    IN  IF usable = {} THEN 0 ELSE CHOOSE k \in usable : \A j \in usable : k <= j

\* After the loop: the fallback synthesis, the sources and the answer payload.
Finish(c, response) ==
    LET content == IF response = <<>> /\ c.lastError # <<>>
                   THEN Fallback(c.query, c.processedDocs)
                   ELSE response
    IN  [c EXCEPT !.pc = "done", !.idx = 0,
                  !.response = Payload(200, "answer", content, Sources(c.relevantDocs),
                                       c.providersAttempted)]

\* The loop runs on from position from until it awaits a provider's call or
\* runs out of providers.
ContinueLoop(c, p, from) ==
    LET k == NextUsable(p, from)
    IN  IF k = 0 THEN Finish(c, <<>>)
        ELSE [c EXCEPT !.pc = "invoke", !.idx = k,
                       !.providersAttempted = Append(@, ProviderOrder[k])]

\* Array.from(sessionVectorStores.keys()), one text part per key.  The model
\* keeps no insertion order and lists the keys in the order of this sequence.
SessionOrder == <<"s1", "s2">>

InStores(s) == MapHas(sessionVectorStores, s)

AvailableSessions ==
    [i \in 1..Len(SelectSeq(SessionOrder, InStores)) |->
        <<"Available sessions: ", SelectSeq(SessionOrder, InStores)[i]>>]

\* The answer for a session without an index: the text, the session id of
\* the request and the ids of the sessions that have an index.
NoIndexContent(s) ==
    << <<"text", "no documents yet">>, <<"Session ID: ", s>> >> \o AvailableSessions

\* POST up to the similarity search: the guarded initializeProviders, the
\* request body, the check of the last message and the session's index.
ChatStart(c, s, q, userMessage) ==
    /\ chat[c].pc = "idle"
    /\ LET f == IF providersInitialized
                THEN Factory(providers, timers)
                ELSE FactoryInitializeProviders(Factory(providers, timers), env)
       IN  /\ providers' = f.providers
           /\ timers' = f.timers
           /\ touched' = [n \in ProviderNames |->
                            touched[n] \/ (~providersInitialized /\ EnvKey(env, n))]
    /\ providersInitialized' = TRUE
    /\ chat' = [chat EXCEPT ![c] =
                  IF ~userMessage
                  THEN [IdleChat EXCEPT !.pc = "done", !.sid = s,
                           !.response = Payload(400, "no-user-message", <<>>, <<>>, <<>>)]
                  ELSE IF ~MapHas(sessionVectorStores, s)
                  THEN [IdleChat EXCEPT !.pc = "done", !.sid = s,
                           !.response = Payload(200, "no-index", NoIndexContent(s),
                                                <<>>, <<>>)]
                  ELSE [IdleChat EXCEPT !.pc = "search", !.sid = s, !.query = q]]
    /\ UNCHANGED <<env, sessionVectorStores, sessionProgress, run, health, window>>

\* A similarity search throws (the embedding call fails): the top-level catch
\* answers with the error payload.
ChatSearchThrows(c) ==
    /\ chat[c].pc = "search"
    /\ chat' = [chat EXCEPT ![c] =
                  [@ EXCEPT !.pc = "done",
                            !.response = Payload(500, "error", <<<<"text", "error">>>>,
                                                 <<>>, <<>>)]]
    /\ UNCHANGED <<env, sessionVectorStores, sessionProgress, run, providers, timers,
                   providersInitialized, health, window, touched>>

\* The searches have returned docs; the context and the prompt are built
\* (formatPrompt throws or times out when ~promptOk) and the provider loop
\* runs up to its first call.
ChatRetrieved(c, promptOk) ==
    /\ chat[c].pc = "search"
    /\ \E docs \in Retrievals(sessionVectorStores[chat[c].sid], chat[c].query) :
         chat' = [chat EXCEPT ![c] =
                  IF Len(docs) = 0
                  THEN [@ EXCEPT !.pc = "done",
                                 !.response = Payload(200, "no-documents",
                                                      <<<<"text", "no_documents">>>>,
                                                      <<>>, <<>>)]
                  ELSE LET found == [@ EXCEPT !.relevantDocs = docs,
                                              !.processedDocs = ProcessedDocs(chat[c].query, docs)]
                       IN  IF ~promptOk
                           THEN [found EXCEPT !.pc = "done",
                                    !.response = Payload(500, "error",
                                                         <<<<"text", "error">>>>, <<>>, <<>>)]
                           ELSE ContinueLoop(found, providers, 1)]
    /\ UNCHANGED <<env, sessionVectorStores, sessionProgress, run, providers, timers,
                   providersInitialized, health, window, touched>>

\* The awaited provider call settles with outcome o: on success the loop
\* breaks, on failure lastError is set, an overload error marks the provider
\* unavailable for a minute, and the loop goes on.
ChatProviderReturns(c, o) ==
    /\ chat[c].pc = "invoke"
    /\ LET name == ProviderOrder[chat[c].idx]
           tried == [chat[c] EXCEPT !.outcomes = Append(@, o)]
           marks == ~o.ok /\ IsOverloadError(o.message)
           f == IF marks
                THEN markProviderUnavailable(Factory(providers, timers), name, CHAT_COOLDOWN_MS)
                ELSE Factory(providers, timers)
       IN  /\ providers' = f.providers
           /\ timers' = f.timers
           /\ window' = IF marks /\ MapHas(providers, name)
                        THEN [window EXCEPT ![name] = Longer(@, CHAT_COOLDOWN_MS)]
                        ELSE window
           /\ touched' = IF marks /\ MapHas(providers, name)
                         THEN [touched EXCEPT ![name] = FALSE]
                         ELSE touched
           /\ chat' = [chat EXCEPT ![c] =
                         IF o.ok
                         THEN Finish(tried, ResponseText(name, o.text))
                         ELSE ContinueLoop([tried EXCEPT !.lastError = o.message],
                                           f.providers, chat[c].idx + 1)]
    /\ UNCHANGED <<env, sessionVectorStores, sessionProgress, run, providersInitialized,
                   health>>

\* The response has been sent; the request's locals are gone.
ChatReturn(c) ==
    /\ chat[c].pc = "done"
    /\ chat' = [chat EXCEPT ![c] = IdleChat]
    /\ UNCHANGED <<env, sessionVectorStores, sessionProgress, run, providers, timers,
                   providersInitialized, health, window, touched>>

(***************************************************************************)
(* Health requests (GET /api/health).                                      *)
(***************************************************************************)
Healths == {"h1"}

IdleHealth ==
    [pc |-> "idle", providerStatus |-> {}, geminiHealthy |-> FALSE, status |-> "none",
     fallbackAvailable |-> FALSE]

HealthRespond(h, p) ==
    [h EXCEPT !.pc = "done",
              !.status = IF h.providerStatus # {} THEN "healthy" ELSE "degraded",
              !.fallbackAvailable = ProviderUsable(p, "openai")]

\* GET up to the test call: initializeProviders runs unconditionally.
HealthStart(h) ==
    /\ health[h].pc = "idle"
    /\ LET f == FactoryInitializeProviders(Factory(providers, timers), env)
           listed == [IdleHealth EXCEPT !.providerStatus = getAvailableProviders(f.providers)]
       IN  /\ providers' = f.providers
           /\ timers' = f.timers
           /\ health' = [health EXCEPT ![h] =
                           IF ProviderUsable(f.providers, "gemini")
                           THEN [listed EXCEPT !.pc = "invoke"]
                           ELSE HealthRespond(listed, f.providers)]
    /\ touched' = [n \in ProviderNames |-> touched[n] \/ EnvKey(env, n)]
    /\ UNCHANGED <<env, sessionVectorStores, sessionProgress, run, providersInitialized,
                   chat, window>>

\* The test call settles: a failure marks gemini unavailable for 30 s.
HealthProviderReturns(h, ok) ==
    /\ health[h].pc = "invoke"
    /\ LET f == IF ok THEN Factory(providers, timers)
                ELSE markProviderUnavailable(Factory(providers, timers), "gemini",
                                             HEALTH_COOLDOWN_MS)
       IN  /\ providers' = f.providers
           /\ timers' = f.timers
           /\ health' = [health EXCEPT ![h] =
                           HealthRespond([@ EXCEPT !.geminiHealthy = ok], f.providers)]
    /\ window' = IF ~ok /\ MapHas(providers, "gemini")
                 THEN [window EXCEPT !["gemini"] = Longer(@, HEALTH_COOLDOWN_MS)]
                 ELSE window
    /\ touched' = IF ~ok /\ MapHas(providers, "gemini")
                  THEN [touched EXCEPT !["gemini"] = FALSE]
                  ELSE touched
    /\ UNCHANGED <<env, sessionVectorStores, sessionProgress, run, providersInitialized,
                   chat>>

HealthReturn(h) ==
    /\ health[h].pc = "done"
    /\ health' = [health EXCEPT ![h] = IdleHealth]
    /\ UNCHANGED <<env, sessionVectorStores, sessionProgress, run, providers, timers,
                   providersInitialized, chat, window, touched>>

(***************************************************************************)
(* The re-enable timers and the clock.                                     *)
(***************************************************************************)
\* The setTimeout callback of markProviderUnavailable: it sets isAvailable
\* of the descriptor it was armed on, which is the one in the registry.
TimerFires(t) ==
    /\ t \in timers
    /\ t.remaining = 0
    /\ timers' = timers \ {t}
    /\ providers' = [providers EXCEPT ![t.name].isAvailable = TRUE]
    /\ touched' = [touched EXCEPT ![t.name] = TRUE]
    /\ UNCHANGED <<env, sessionVectorStores, sessionProgress, run, providersInitialized,
                   chat, health, window>>

\* Time passes; a timer that is due fires before the clock moves on.
Tick ==
    /\ \A t \in timers : t.remaining > 0
    /\ timers' = {[t EXCEPT !.remaining = Earlier(@)] : t \in timers}
    /\ window' = [n \in ProviderNames |-> Earlier(window[n])]
    /\ UNCHANGED <<env, sessionVectorStores, sessionProgress, run, providers,
                   providersInitialized, chat, health, touched>>

(***************************************************************************)
(* The retrieval stage of the chat route search by search: the primary     *)
(* search and the awaited searches of the two escalations.                 *)
(***************************************************************************)
\* relevantDocs.some(doc => fileName includes searchTerm)
hasTargetDoc(docs) == \E i \in 1..Len(docs) : fileNameIncludes(docs[i])

\* relevantDocs.some(doc => content, file name or elevatorIds include the id)
hasElevatorDoc(docs) == \E i \in 1..Len(docs) : holdsId(docs[i])

IdleRoute ==
    [pc |-> "idle", sid |-> "s1",
     query |-> [isOverview |-> FALSE, fileNameMatch |-> FALSE, idMatch |-> FALSE,
                isGerman |-> FALSE],
     primary |-> <<>>, expanded |-> <<>>, afterFile |-> <<>>, term |-> 0,
     relevantDocs |-> <<>>]

\* Where the retrieval goes once the file-name stage is over: into the
\* identifier escalation's search of 100, or to its end.
ToEntityStage(rt) ==
    IF rt.query.idMatch /\ ~rt.query.isOverview /\ ~hasElevatorDoc(rt.relevantDocs)
    THEN [rt EXCEPT !.pc = "all", !.afterFile = rt.relevantDocs]
    ELSE [rt EXCEPT !.pc = "done", !.afterFile = rt.relevantDocs]

\* The file-name stage that escalates for overview queries too.
ToFileStageAlways(rt) ==
    IF rt.query.fileNameMatch /\ ~hasTargetDoc(rt.relevantDocs)
    THEN [rt EXCEPT !.pc = "expand"]
    ELSE ToEntityStage(rt)

\* Where the retrieval goes after the primary search: into the file-name
\* escalation's search of 20, or on to the identifier stage.
ToFileStage(rt) ==
    IF rt.query.fileNameMatch /\ ~rt.query.isOverview /\ ~hasTargetDoc(rt.relevantDocs)
    THEN [rt EXCEPT !.pc = "expand"]
    ELSE ToEntityStage(rt)

\* The merge of the file-name escalation that keeps all primary results.
FileMergeUncapped(fileMatchedDocs, docs) ==
    IF Len(fileMatchedDocs) > 0 THEN fileMatchedDocs \o docs ELSE docs

\* [...fileMatchedDocs, ...relevantDocs.slice(0, 2)] when there is a match.
FileMerge(fileMatchedDocs, docs) ==
    IF Len(fileMatchedDocs) > 0 THEN fileMatchedDocs \o Slice(docs, 2) ELSE docs

\* The primary search of a request for session s returns.
RoutePrimary(s, q, p) ==
    /\ route.pc = "idle"
    /\ MapHas(sessionVectorStores, s)
    /\ p \in Rankings(sessionVectorStores[s])
    /\ LET docs == similaritySearch(sessionVectorStores[s], searchLimit(q), p)
       IN  route' = ToFileStage([IdleRoute EXCEPT !.sid = s, !.query = q, !.primary = docs,
                                                  !.relevantDocs = docs])
    /\ UNCHANGED <<env, sessionVectorStores, sessionProgress, run, chatVars, extractVars, poll, prompt>>

\* The search of 20 of the file-name escalation returns.
RouteExpanded(p) ==
    /\ route.pc = "expand"
    /\ p \in Rankings(sessionVectorStores[route.sid])
    /\ LET expandedDocs == similaritySearch(sessionVectorStores[route.sid], 20, p)
           fileMatchedDocs == SelectSeq(expandedDocs, fileNameIncludes)
       IN  route' = ToEntityStage([route EXCEPT
                        !.expanded = expandedDocs,
                        !.relevantDocs = FileMerge(fileMatchedDocs, route.relevantDocs)])
    /\ UNCHANGED <<env, sessionVectorStores, sessionProgress, run, chatVars, extractVars, poll, prompt>>

\* The search of 100 of the identifier escalation returns.
RouteAllDocs(p) ==
    /\ route.pc = "all"
    /\ p \in Rankings(sessionVectorStores[route.sid])
    /\ LET allDocsSearch == similaritySearch(sessionVectorStores[route.sid], 100, p)
           elevatorMatchedDocs == SelectSeq(allDocsSearch, holdsId)
       IN  route' = IF Len(elevatorMatchedDocs) > 0
                    THEN [route EXCEPT !.pc = "done",
                             !.relevantDocs = elevatorMatchedDocs \o Slice(route.relevantDocs, 3)]
                    ELSE [route EXCEPT !.pc = "alt", !.term = 1]
    /\ UNCHANGED <<env, sessionVectorStores, sessionProgress, run, chatVars, extractVars, poll, prompt>>

\* The search of 50 for the alternative term route.term returns.
RouteAlt(p) ==
    /\ route.pc = "alt"
    /\ p \in Rankings(sessionVectorStores[route.sid])
    /\ LET Matches(d) == altTermMatches(d, route.term)
           altDocs == similaritySearch(sessionVectorStores[route.sid], 50, p)
           altMatches == SelectSeq(altDocs, Matches)
       IN  route' = IF Len(altMatches) > 0
                    THEN [route EXCEPT !.pc = "done",
                             !.relevantDocs = altMatches \o Slice(route.relevantDocs, 2)]
                    ELSE IF route.term + 1 \in AltTerms
                    THEN [route EXCEPT !.term = route.term + 1]
                    ELSE [route EXCEPT !.pc = "done"]
    /\ UNCHANGED <<env, sessionVectorStores, sessionProgress, run, chatVars, extractVars, poll, prompt>>

\* The handler goes on with relevantDocs; the slot serves the next request.
RouteTaken ==
    /\ route.pc = "done"
    /\ route' = IdleRoute
    /\ UNCHANGED <<env, sessionVectorStores, sessionProgress, run, chatVars, extractVars, poll, prompt>>

(***************************************************************************)
(* The prompt configuration loader: the module-level cache of               *)
(* lib/prompt-config.ts, the file config/prompts.yaml and the clock.       *)
(***************************************************************************)
cacheValidMs == 60000

\* process.env.NODE_ENV
NodeEnvs == {"production", "development"}

\* What config/prompts.yaml holds: a valid configuration of some version,
\* text the YAML parser or the schema rejects, or nothing (no such file).
ConfigFiles == {"v1", "v2", "invalid", "missing"}

DEFAULT_CONFIG == "fallback"

NoConfig == "null"

\* Date.now() when the process starts, and how far the clock moves in a step.
StartMs == 2 * cacheValidMs

PromptTickMs == cacheValidMs \div 2

MaxPromptTicks == 4

\* existsSync, readFileSync, yaml.load and PromptConfigSchema.parse: the
\* validated configuration, or a throw.
ReadConfig(file) ==
    IF file \in {"v1", "v2"} THEN [threw |-> FALSE, config |-> file]
    ELSE [threw |-> TRUE, config |-> NoConfig]

NoCall ==
    [made |-> FALSE, forceRefresh |-> FALSE, cachedBefore |-> NoConfig, age |-> 0,
     file |-> "missing", read |-> FALSE, returned |-> NoConfig]

\* The module as loaded by a process started with NODE_ENV = e.
StartPrompt(e) ==
    [nodeEnv |-> e, now |-> StartMs, file |-> "v1", cachedConfig |-> NoConfig,
     lastLoadTime |-> 0, lastLoadError |-> FALSE, call |-> NoCall]

\* !forceRefresh && cachedConfig && (isDevMode || now - lastLoadTime < cacheValidMs)
CacheValid(pr, forceRefresh) ==
    /\ ~forceRefresh
    /\ pr.cachedConfig # NoConfig
    /\ (pr.nodeEnv = "development" \/ pr.now - pr.lastLoadTime < cacheValidMs)

\* A call of loadPromptConfig(forceRefresh): the cached configuration, or
\* the file read and cached, or DEFAULT_CONFIG cached after a failed load.
loadPromptConfig(forceRefresh) ==
    /\ LET call == [made |-> TRUE, forceRefresh |-> forceRefresh,
                    cachedBefore |-> prompt.cachedConfig,
                    age |-> prompt.now - prompt.lastLoadTime,
                    file |-> prompt.file, read |-> FALSE, returned |-> NoConfig]
           loaded == ReadConfig(prompt.file)
       IN  prompt' =
             IF CacheValid(prompt, forceRefresh)
             THEN [prompt EXCEPT !.call = [call EXCEPT !.returned = prompt.cachedConfig]]
             ELSE IF ~loaded.threw
             THEN [prompt EXCEPT !.cachedConfig = loaded.config,
                                 !.lastLoadTime = prompt.now,
                                 !.lastLoadError = FALSE,
                                 !.call = [call EXCEPT !.read = TRUE,
                                                       !.returned = loaded.config]]
             ELSE [prompt EXCEPT !.cachedConfig = DEFAULT_CONFIG,
                                 !.lastLoadTime = prompt.now,
                                 !.lastLoadError = TRUE,
                                 !.call = [call EXCEPT !.read = TRUE,
                                                       !.returned = DEFAULT_CONFIG]]
    /\ UNCHANGED <<env, sessionVectorStores, sessionProgress, run, chatVars, extractVars, poll, route>>

invalidateConfigCache ==
    /\ prompt.cachedConfig # NoConfig \/ prompt.lastLoadTime # 0
    /\ prompt' = [prompt EXCEPT !.cachedConfig = NoConfig, !.lastLoadTime = 0]
    /\ UNCHANGED <<env, sessionVectorStores, sessionProgress, run, chatVars, extractVars, poll, route>>

\* config/prompts.yaml is edited, replaced or removed.
ConfigFileChanges(file) ==
    /\ file # prompt.file
    /\ prompt' = [prompt EXCEPT !.file = file]
    /\ UNCHANGED <<env, sessionVectorStores, sessionProgress, run, chatVars, extractVars, poll, route>>

\* Time passes.
PromptClock ==
    /\ prompt.now < StartMs + MaxPromptTicks * PromptTickMs
    /\ prompt' = [prompt EXCEPT !.now = prompt.now + PromptTickMs]
    /\ UNCHANGED <<env, sessionVectorStores, sessionProgress, run, chatVars, extractVars, poll, route>>

(***************************************************************************)
(* parseFileContent step by step: its decoders, the temp file of the PDF   *)
(* branch and its two catch blocks.  A call runs on behalf of an ingestion *)
(* request; calls of different requests can be in flight together and      *)
(* share the temp directory.                                               *)
(***************************************************************************)
Calls == {"p1", "p2"}

PDF == "application/pdf"
DOCX == "application/vnd.openxmlformats-officedocument.wordprocessingml.document"
XLSX == "application/vnd.openxmlformats-officedocument.spreadsheetml.sheet"
XLS == "application/vnd.ms-excel"
PLAIN == "text/plain"

\* The MIME types of the switch and one that it does not list.
ExtractMimeTypes == {PDF, DOCX, XLSX, XLS, PLAIN, "image/png"}

ExtractNames == {FileName(1), FileName(2)}

\* A thrown value: an Error with its message, or a value that is no Error.
Err(message) == [isError |-> TRUE, message |-> message]

NonError == [isError |-> FALSE, message |-> ""]

NoThrow == [isError |-> FALSE, message |-> "none"]

\* What a decoder call settles with: the extracted text (blank or not), or
\* a thrown value.
DecoderOutcomes ==
    {[throws |-> FALSE, text |-> t, thrown |-> NoThrow] : t \in {<<>>, <<"text">>}}
        \cup {[throws |-> TRUE, text |-> <<>>, thrown |-> e] :
                    e \in {Err("corrupt file"), NonError}}

\* The strings parseFileContent returns: the decoded text, or one of the
\* two placeholders with the values their templates embed.
Decoded(text) ==
    [kind |-> "text", fileName |-> NoFile, mimeType |-> "", error |-> "", text |-> text]

\* `[Error parsing file: ${fileName}]`, without the error.
ErrorPlaceholderBare(fileName, thrown) ==
    [kind |-> "[Error parsing file: - ]", fileName |-> fileName, mimeType |-> "",
     error |-> "", text |-> <<>>]

\* `[Error parsing file: ${fileName} - ${error instanceof Error ? error.message : 'Unknown error'}]`
ErrorPlaceholder(fileName, thrown) ==
    [kind |-> "[Error parsing file: - ]", fileName |-> fileName, mimeType |-> "",
     error |-> IF thrown.isError THEN thrown.message ELSE "Unknown error",
     text |-> <<>>]

\* `[File: ${fileName} - Type: ${mimeType} - Manual review needed]`
ReviewPlaceholder(fileName, mimeType) ==
    [kind |-> "[File: - Type: - Manual review needed]", fileName |-> fileName,
     mimeType |-> mimeType, error |-> "", text |-> <<>>]

\* How a call ends for its caller: a returned string or a raised value.
NoOutcome == [raised |-> FALSE, settled |-> FALSE, value |-> Decoded(<<>>), thrown |-> NoThrow]

Returned(value) == [raised |-> FALSE, settled |-> TRUE, value |-> value, thrown |-> NoThrow]

Raised(thrown) == [raised |-> TRUE, settled |-> TRUE, value |-> Decoded(<<>>), thrown |-> thrown]

\* An outer catch that passes the thrown value on to the caller.
OuterCatchRethrows(fileName, thrown) == Raised(thrown)

\* The outer catch of parseFileContent.
OuterCatch(fileName, thrown) == Returned(ErrorPlaceholder(fileName, thrown))

\* The default branch that throws on a type the switch does not list.
DefaultBranchThrows(fileName, mimeType) ==
    OuterCatch(fileName, Err("unsupported type"))

\* The default branch of the switch.
DefaultBranch(fileName, mimeType) == Returned(ReviewPlaceholder(fileName, mimeType))

\* The spans the caller's splitter cuts a returned string into: content.trim()
\* is empty for a blank text only; a placeholder is one short span.
SplitText(value) ==
    IF value.kind = "text" THEN value.text ELSE <<value.kind>>

\* path.join(os.tmpdir(), `temp_${fileName}`)
tempFilePath(fileName) == <<"temp_", fileName>>

TempPaths == {tempFilePath(n) : n \in ExtractNames}

FileExists(dir, path) == dir[path] # {}

\* fs.writeFileSync(tempFilePath, fileBuffer) by call p: the file is written
\* ("ok"), created but not written in full before the throw ("partial"), or
\* not created at all ("none").
WriteOutcomes == {"ok", "partial", "none"}

writeFileSync(dir, path, p, w) ==
    [dir |-> IF w = "none" THEN dir ELSE [dir EXCEPT ![path] = @ \cup {p}],
     threw |-> w # "ok",
     thrown |-> IF w = "ok" THEN NoThrow ELSE Err("ENOSPC")]

\* fs.unlinkSync(tempFilePath): throws when there is no such file; on an
\* existing file it removes it, or the system refuses and it throws.
UnlinkOutcomes == {"removed", "refused"}

unlinkSync(dir, path, u) ==
    IF ~FileExists(dir, path)
    THEN [dir |-> dir, threw |-> TRUE, thrown |-> Err("ENOENT")]
    ELSE IF u = "removed"
         THEN [dir |-> [dir EXCEPT ![path] = {}], threw |-> FALSE, thrown |-> NoThrow]
         ELSE [dir |-> dir, threw |-> TRUE, thrown |-> Err("EPERM")]

\* The inner catch of the PDF branch: it unlinks, ignores a failure of the
\* cleanup, and throws the error on to the outer catch.
PdfCatch(dir, fileName, thrown, u) ==
    [dir |-> unlinkSync(dir, tempFilePath(fileName), u).dir,
     outcome |-> OuterCatch(fileName, thrown)]

IdleParse ==
    [pc |-> "idle", mimeType |-> "", fileName |-> NoFile, wrote |-> FALSE,
     outcome |-> NoOutcome]

\* The call settles: the promise of the async function resolves or rejects.
Settle(p, outcome) ==
    parse' = [parse EXCEPT ![p].pc = "settled", ![p].outcome = outcome]

\* A call for a PDF: it writes the temp file and awaits the loader, or the
\* write throws and the two catch blocks run.
ParsePdfStart(p, fileName, w, u) ==
    /\ parse[p].pc = "idle"
    /\ LET path == tempFilePath(fileName)
           written == writeFileSync(tmpdir, path, p, w)
           caught == PdfCatch(written.dir, fileName, written.thrown, u)
       IN IF written.threw
          THEN /\ tmpdir' = caught.dir
               /\ parse' = [parse EXCEPT ![p] =
                               [pc |-> "settled", mimeType |-> PDF, fileName |-> fileName,
                                wrote |-> w # "none", outcome |-> caught.outcome]]
          ELSE /\ tmpdir' = written.dir
               /\ parse' = [parse EXCEPT ![p] =
                               [pc |-> "load", mimeType |-> PDF, fileName |-> fileName,
                                wrote |-> TRUE, outcome |-> NoOutcome]]
    /\ UNCHANGED <<env, sessionVectorStores, sessionProgress, run, chatVars, poll, route, prompt>>

\* pdfLoader.load() settles: on a text the temp file is unlinked and the
\* text returned, a throw of the loader or of that unlink goes to the inner
\* catch.
ParsePdfLoaded(p, d, u1, u2) ==
    /\ parse[p].pc = "load"
    /\ LET fileName == parse[p].fileName
           cleaned == unlinkSync(tmpdir, tempFilePath(fileName), u1)
           caught == IF d.throws
                     THEN PdfCatch(tmpdir, fileName, d.thrown, u1)
                     ELSE PdfCatch(cleaned.dir, fileName, cleaned.thrown, u2)
       IN IF ~d.throws /\ ~cleaned.threw
          THEN tmpdir' = cleaned.dir /\ Settle(p, Returned(Decoded(d.text)))
          ELSE tmpdir' = caught.dir /\ Settle(p, caught.outcome)
    /\ UNCHANGED <<env, sessionVectorStores, sessionProgress, run, chatVars, poll, route, prompt>>

\* A call for a Word document awaits mammoth.extractRawText.
ParseDocxStart(p, fileName) ==
    /\ parse[p].pc = "idle"
    /\ parse' = [parse EXCEPT ![p] =
                    [pc |-> "decode", mimeType |-> DOCX, fileName |-> fileName,
                     wrote |-> FALSE, outcome |-> NoOutcome]]
    /\ UNCHANGED <<env, sessionVectorStores, sessionProgress, run, chatVars, tmpdir, poll, route, prompt>>

ParseDocxDecoded(p, d) ==
    /\ parse[p].pc = "decode"
    /\ Settle(p, IF d.throws THEN OuterCatch(parse[p].fileName, d.thrown)
                 ELSE Returned(Decoded(d.text)))
    /\ UNCHANGED <<env, sessionVectorStores, sessionProgress, run, chatVars, tmpdir, poll, route, prompt>>

\* The branches without an await: a spreadsheet (XLSX.read returns or
\* throws), a plain text (Buffer.toString), and the default branch.
ParseSync(p, mimeType, fileName, d) ==
    /\ parse[p].pc = "idle"
    /\ mimeType \notin {PDF, DOCX}
    /\ mimeType = PLAIN => ~d.throws
    /\ parse' = [parse EXCEPT ![p] =
                    [pc |-> "settled", mimeType |-> mimeType, fileName |-> fileName,
                     wrote |-> FALSE,
                     outcome |-> IF mimeType \in {XLSX, XLS, PLAIN}
                                 THEN IF d.throws THEN OuterCatch(fileName, d.thrown)
                                      ELSE Returned(Decoded(d.text))
                                 ELSE DefaultBranch(fileName, mimeType)]]
    /\ UNCHANGED <<env, sessionVectorStores, sessionProgress, run, chatVars, tmpdir, poll, route, prompt>>

\* The caller resumes with the outcome of the call; the slot is free for the
\* next file.
ParseTaken(p) ==
    /\ parse[p].pc = "settled"
    /\ parse' = [parse EXCEPT ![p] = IdleParse]
    /\ UNCHANGED <<env, sessionVectorStores, sessionProgress, run, chatVars, tmpdir, poll, route, prompt>>

\* No extraction in flight, an empty temp directory, no progress request yet.
NoExtractYet ==
    /\ tmpdir = [path \in TempPaths |-> {}]
    /\ parse = [p \in Calls |-> IdleParse]
    /\ poll = NoReply
    /\ prompt = StartPrompt("production")
    /\ route = IdleRoute

\* The chat side before any chat or health request: the registry is empty.
NoChatYet ==
    /\ providers = <<>>
    /\ timers = {}
    /\ providersInitialized = FALSE
    /\ chat = [c \in Chats |-> IdleChat]
    /\ health = [h \in Healths |-> IdleHealth]
    /\ window = [n \in ProviderNames |-> 0]
    /\ touched = [n \in ProviderNames |-> FALSE]


(***************************************************************************)
(* Specification of the ingestion pipeline, its requests served one after  *)
(* another.                                                                *)
(***************************************************************************)
AllSet ==
    [GOOGLE_CLIENT_EMAIL |-> TRUE, GOOGLE_PRIVATE_KEY |-> TRUE,
     GOOGLE_DRIVE_FOLDER_ID |-> TRUE, GEMINI_API_KEY |-> TRUE, OPENAI_API_KEY |-> TRUE]

\* The configuration values the ingestion validates.
RequiredKeys ==
    {"GOOGLE_CLIENT_EMAIL", "GOOGLE_PRIVATE_KEY", "GOOGLE_DRIVE_FOLDER_ID", "GEMINI_API_KEY"}

\* Everything is set, or one of the required values is missing.
IngestEnvs == {AllSet} \cup {[AllSet EXCEPT ![k] = FALSE] : k \in RequiredKeys}

InitIngest ==
    /\ env \in IngestEnvs
    /\ sessionVectorStores = <<>>
    /\ sessionProgress = <<>>
    /\ run = [r \in Runs |-> IdleRun]
    /\ NoChatYet
    /\ NoExtractYet

NextIngest ==
    /\ UNCHANGED chatVars
    /\ UNCHANGED <<extractVars, poll, route, prompt>>
    /\ \E r \in SerialRuns :
        \/ \E s \in Sessions : IngestStart(r, s)
        \/ ListThrows(r)
        \/ \E files \in Listings : ListReturns(r, files)
        \/ FileFails(r)
        \/ \E m \in MimeTypes, d \in DecodeResults : FileDone(r, m, d)
        \/ IndexThrows(r)
        \/ IndexBuilt(r)
        \/ IngestReturn(r)

SpecIngest == InitIngest /\ [][NextIngest]_vars

(***************************************************************************)
(* Specification of the chat side: chat and health requests against the    *)
(* index of a finished ingestion.                                          *)
(***************************************************************************)
File(k) == [id |-> k, name |-> FileName(k)]

ChatIndexes ==
    {TagChunks(File(1), <<"text">>) \o TagChunks(File(2), <<"id">>),
     TagChunks(File(1), <<"text", "partial">>)}

ChatEnvs == {AllSet, [AllSet EXCEPT !.OPENAI_API_KEY = FALSE]}

InitChat ==
    /\ env \in ChatEnvs
    /\ sessionVectorStores \in {[s \in {"s1"} |-> index] : index \in ChatIndexes}
    /\ sessionProgress = <<>>
    /\ run = [r \in Runs |-> IdleRun]
    /\ NoChatYet
    /\ NoExtractYet

NextChat ==
    /\ UNCHANGED <<extractVars, poll, route, prompt>>
    /\ \/ \E c \in Chats :
           \/ \E s \in Sessions, q \in Queries, m \in BOOLEAN : ChatStart(c, s, q, m)
           \/ ChatSearchThrows(c)
           \/ \E promptOk \in BOOLEAN : ChatRetrieved(c, promptOk)
           \/ \E o \in ProviderOutcomes : ChatProviderReturns(c, o)
           \/ ChatReturn(c)
       \/ \E h \in Healths :
           \/ HealthStart(h)
           \/ \E ok \in BOOLEAN : HealthProviderReturns(h, ok)
           \/ HealthReturn(h)
       \/ \E t \in timers : TimerFires(t)
       \/ Tick

SpecChat == InitChat /\ [][NextChat]_vars

(***************************************************************************)
(* Specification of the query router: chat requests against long indexes,  *)
(* longer than the limits of the searches.                                 *)
(***************************************************************************)
\* The text of a long file: n spans, the span at position at (if any) holds
\* the identifier.
LongText(n, at) == [i \in 1..n |-> IF i = at THEN "id" ELSE "text"]

RouterIndexes ==
    {TagChunks(File(1), LongText(50, 47)),
     TagChunks(File(1), LongText(100, 0)) \o TagChunks(File(2), <<"id">>)}

InitRouter ==
    /\ env = AllSet
    /\ sessionVectorStores \in {[s \in {"s1"} |-> index] : index \in RouterIndexes}
    /\ sessionProgress = <<>>
    /\ run = [r \in Runs |-> IdleRun]
    /\ NoChatYet
    /\ NoExtractYet

SpecRouter == InitRouter /\ [][NextChat]_vars

(***************************************************************************)
(* Specification of the overview queries: chat requests against the index  *)
(* of a folder of twelve files, the first of them cut into two chunks of   *)
(* different lengths.                                                      *)
(***************************************************************************)
RECURSIVE OneChunkEach(_)
\* The chunks of files 2..n, one chunk per file.
OneChunkEach(n) ==
    IF n < 2 THEN <<>> ELSE OneChunkEach(n - 1) \o TagChunks(File(n), <<"text">>)

OverviewIndex == TagChunks(File(1), <<"partial", "text">>) \o OneChunkEach(12)

InitOverview ==
    /\ env = AllSet
    /\ sessionVectorStores = [s \in {"s1"} |-> OverviewIndex]
    /\ sessionProgress = <<>>
    /\ run = [r \in Runs |-> IdleRun]
    /\ NoChatYet
    /\ NoExtractYet

SpecOverview == InitOverview /\ [][NextChat]_vars

(***************************************************************************)
(* Specification of the retrieval stage: queries of every class against    *)
(* indexes in which the file the query names is ranked late, is missing,   *)
(* lies beyond the 20 results of the expanded search, or lies beyond the   *)
(* 12 results of an overview search.                                       *)
(***************************************************************************)
RouteQueries ==
    [isOverview : BOOLEAN, fileNameMatch : BOOLEAN, idMatch : BOOLEAN, isGerman : {FALSE}]

RouteIndexes ==
    {TagChunks(File(2), <<"text", "text", "partial">>) \o TagChunks(File(1), <<"id", "text">>),
     TagChunks(File(2), <<"text", "partial">>) \o TagChunks(File(3), <<"text">>),
     TagChunks(File(2), LongText(25, 0)) \o TagChunks(File(1), <<"text">>),
     TagChunks(File(2), LongText(14, 0)) \o TagChunks(File(1), <<"text">>)}

InitRoute ==
    /\ env = AllSet
    /\ sessionVectorStores \in {[s \in {"s1"} |-> index] : index \in RouteIndexes}
    /\ sessionProgress = <<>>
    /\ run = [r \in Runs |-> IdleRun]
    /\ NoChatYet
    /\ NoExtractYet

NextRoute ==
    \/ \E q \in RouteQueries, p \in Rankings(sessionVectorStores["s1"]) :
            RoutePrimary("s1", q, p)
    \/ \E p \in Rankings(sessionVectorStores["s1"]) : RouteExpanded(p)
    \/ \E p \in Rankings(sessionVectorStores["s1"]) : RouteAllDocs(p)
    \/ \E p \in Rankings(sessionVectorStores["s1"]) : RouteAlt(p)
    \/ RouteTaken

SpecRoute == InitRoute /\ [][NextRoute]_vars

(***************************************************************************)
(* Specification of the prompt configuration loader: calls of              *)
(* loadPromptConfig and invalidateConfigCache in a process of either       *)
(* NODE_ENV, while the file changes and time passes.                       *)
(***************************************************************************)
InitPrompt ==
    /\ env = AllSet
    /\ sessionVectorStores = <<>>
    /\ sessionProgress = <<>>
    /\ run = [r \in Runs |-> IdleRun]
    /\ NoChatYet
    /\ tmpdir = [path \in TempPaths |-> {}]
    /\ parse = [p \in Calls |-> IdleParse]
    /\ poll = NoReply /\ route = IdleRoute
    /\ prompt \in {StartPrompt(e) : e \in NodeEnvs}

NextPrompt ==
    \/ \E forceRefresh \in BOOLEAN : loadPromptConfig(forceRefresh)
    \/ invalidateConfigCache
    \/ \E file \in ConfigFiles : ConfigFileChanges(file)
    \/ PromptClock

SpecPrompt == InitPrompt /\ [][NextPrompt]_vars

(***************************************************************************)
(* Specification of the provider cooldowns under fair timers: chat         *)
(* requests of one plain query and health checks over one small index,     *)
(* where a timer that is due fires and time goes on.                       *)
(***************************************************************************)
InitCooldown ==
    /\ env \in ChatEnvs
    /\ sessionVectorStores = [s \in {"s1"} |-> TagChunks(File(1), <<"text">>)]
    /\ sessionProgress = <<>>
    /\ run = [r \in Runs |-> IdleRun]
    /\ NoChatYet
    /\ NoExtractYet

NextCooldown ==
    /\ UNCHANGED <<extractVars, poll, route, prompt>>
    /\ \/ \E c \in Chats :
           \/ ChatStart(c, "s1", PlainQuery, TRUE)
           \/ ChatSearchThrows(c)
           \/ \E promptOk \in BOOLEAN : ChatRetrieved(c, promptOk)
           \/ \E o \in ProviderOutcomes : ChatProviderReturns(c, o)
           \/ ChatReturn(c)
       \/ \E h \in Healths :
           \/ HealthStart(h)
           \/ \E ok \in BOOLEAN : HealthProviderReturns(h, ok)
           \/ HealthReturn(h)
       \/ \E t \in timers : TimerFires(t)
       \/ Tick

\* The event loop runs a setTimeout callback that is due, and time passes.
TimersRun ==
    /\ UNCHANGED <<extractVars, poll, route, prompt>>
    /\ \/ \E t \in timers : TimerFires(t)
       \/ Tick

SpecCooldown == InitCooldown /\ [][NextCooldown]_vars /\ WF_vars(TimersRun)

(***************************************************************************)
(* Specification of concurrent ingestion: two requests in flight, for the  *)
(* same session or for different ones, on a folder of at most one file     *)
(* whose decoding succeeds or fails.                                       *)
(***************************************************************************)
RaceListings == {<<>>, <<File(1)>>}

RaceDecodes ==
    {[throws |-> FALSE, text |-> <<"text">>], [throws |-> TRUE, text |-> <<>>]}

InitRace ==
    /\ env = AllSet
    /\ sessionVectorStores = <<>>
    /\ sessionProgress = <<>>
    /\ run = [r \in Runs |-> IdleRun]
    /\ NoChatYet
    /\ NoExtractYet

NextRace ==
    /\ UNCHANGED chatVars
    /\ UNCHANGED <<extractVars, poll, route, prompt>>
    /\ \E r \in Runs :
        \/ \E s \in Sessions : IngestStart(r, s)
        \/ ListThrows(r)
        \/ \E files \in RaceListings : ListReturns(r, files)
        \/ FileFails(r)
        \/ \E d \in RaceDecodes : FileDone(r, "text/plain", d)
        \/ IndexThrows(r)
        \/ IndexBuilt(r)
        \/ IngestReturn(r)

SpecRace == InitRace /\ [][NextRace]_vars

(***************************************************************************)
(* Specification of the content extractor: two calls in flight over files  *)
(* of every type, with decoders and file system calls that return or throw.*)
(***************************************************************************)
InitExtract ==
    /\ env = AllSet
    /\ sessionVectorStores = <<>>
    /\ sessionProgress = <<>>
    /\ run = [r \in Runs |-> IdleRun]
    /\ NoChatYet
    /\ NoExtractYet

NextExtract ==
    \E p \in Calls :
        \/ \E n \in ExtractNames, w \in WriteOutcomes, u \in UnlinkOutcomes :
                ParsePdfStart(p, n, w, u)
        \/ \E d \in DecoderOutcomes, u1 \in UnlinkOutcomes, u2 \in UnlinkOutcomes :
                ParsePdfLoaded(p, d, u1, u2)
        \/ \E n \in ExtractNames : ParseDocxStart(p, n)
        \/ \E d \in DecoderOutcomes : ParseDocxDecoded(p, d)
        \/ \E m \in ExtractMimeTypes, n \in ExtractNames, d \in DecoderOutcomes :
                ParseSync(p, m, n, d)
        \/ ParseTaken(p)

SpecExtract == InitExtract /\ [][NextExtract]_vars

(***************************************************************************)
(* Specification of the readers: progress, chat and health requests after  *)
(* an ingestion for session s1 has stored its index and its last record.   *)
(***************************************************************************)
InitServe ==
    /\ env = AllSet
    /\ sessionVectorStores =
            [s \in {"s1"} |-> TagChunks(File(1), <<"text">>) \o TagChunks(File(2), <<"id">>)]
    /\ sessionProgress =
            [s \in {"s1"} |-> SuccessUpdate(<<File(1), File(2)>>, sessionVectorStores[s])]
    /\ run = [r \in Runs |-> IdleRun]
    /\ NoChatYet
    /\ tmpdir = [path \in TempPaths |-> {}]
    /\ parse = [p \in Calls |-> IdleParse]
    /\ poll = NoReply
    /\ prompt = StartPrompt("production")
    /\ route = IdleRoute

NextServe ==
    /\ UNCHANGED <<extractVars, route, prompt>>
    /\ \/ \E sid \in PollIds : ProgressRead(sid)
       \/ \E sid \in PollIds : ProgressLookup(sid)
       \/ \E c \in Chats :
           \/ \E s \in Sessions, q \in Queries, m \in BOOLEAN : ChatStart(c, s, q, m) /\ UNCHANGED poll
           \/ ChatSearchThrows(c) /\ UNCHANGED poll
           \/ \E promptOk \in BOOLEAN : ChatRetrieved(c, promptOk) /\ UNCHANGED poll
           \/ \E o \in ProviderOutcomes : ChatProviderReturns(c, o) /\ UNCHANGED poll
           \/ ChatReturn(c) /\ UNCHANGED poll
       \/ \E h \in Healths :
           \/ HealthStart(h) /\ UNCHANGED poll
           \/ \E ok \in BOOLEAN : HealthProviderReturns(h, ok) /\ UNCHANGED poll
           \/ HealthReturn(h) /\ UNCHANGED poll
       \/ \E t \in timers : TimerFires(t) /\ UNCHANGED poll
       \/ Tick /\ UNCHANGED poll

SpecServe == InitServe /\ [][NextServe]_vars

(***************************************************************************)
(* Specification of the ingestion pipeline with calls that settle: every   *)
(* awaited call to the document source and to the embedding provider       *)
(* eventually returns or throws.  Folders of up to two files.              *)
(***************************************************************************)
LiveListings == {<<>>, <<File(1)>>, <<File(1), File(2)>>}

LiveDecodes == RaceDecodes \cup {[throws |-> FALSE, text |-> <<>>]}

\* The awaited call that run r is waiting for settles.
CallSettlesFor(r) ==
    \/ ListThrows(r)
    \/ \E files \in LiveListings : ListReturns(r, files)
    \/ FileFails(r)
    \/ \E d \in LiveDecodes : FileDone(r, "text/plain", d)
    \/ IndexThrows(r)
    \/ IndexBuilt(r)

NextLive ==
    /\ UNCHANGED chatVars
    /\ UNCHANGED <<extractVars, poll, route, prompt>>
    /\ \E r \in SerialRuns :
        \/ \E s \in Sessions : IngestStart(r, s)
        \/ ListThrows(r)
        \/ \E files \in LiveListings : ListReturns(r, files)
        \/ FileFails(r)
        \/ \E d \in LiveDecodes : FileDone(r, "text/plain", d)
        \/ IndexThrows(r)
        \/ IndexBuilt(r)
        \/ IngestReturn(r)

SpecLive ==
    /\ InitIngest
    /\ [][NextLive]_vars
    /\ \A r \in SerialRuns : WF_vars(UNCHANGED chatVars /\ UNCHANGED <<extractVars, poll, route, prompt>>
                                        /\ CallSettlesFor(r))

(***************************************************************************)
(* Properties of the ingestion pipeline, checked under SpecIngest.         *)
(***************************************************************************)
CachedReady == Response(200, "ready-cached", 0, 0)

\* The consecutive updates of run r that precede its terminal update: all of
\* them while the run is under way, all but the last once it has ended.
NonTerminalPairs(r) ==
    {k \in 1..(Len(run[r].written) - 1) :
        run[r].pc # "done" \/ k + 1 < Len(run[r].written)}

\* The chunk collection the loop must have built from the files handled so
\* far: the tagged chunks of every file that was parsed to non-blank text.
RECURSIVE ExpectedDocs(_, _, _)
ExpectedDocs(files, results, k) ==
    IF k = 0 THEN <<>>
    ELSE ExpectedDocs(files, results, k - 1) \o
         (IF results[k].kind = "parsed" /\ Len(results[k].content) > 0
          THEN TagChunks(files[k], results[k].content)
          ELSE <<>>)

\* C5: a request for a session that already has a stored index answers the
\* cached "ready" result, calls the document source zero times, writes no
\* progress, builds nothing and leaves the stored index unchanged.
C5_CacheHitIsNoOp ==
    [][\A r \in Runs :
        (run[r].pc = "idle" /\ run'[r].pc # "idle"
            /\ MapHas(sessionVectorStores, run'[r].sid))
        => /\ run'[r].pc = "done"
           /\ run'[r].response = CachedReady
           /\ run'[r].remoteCalls = 0
           /\ run'[r].allDocuments = <<>>
           /\ sessionVectorStores' = sessionVectorStores
           /\ sessionProgress' = sessionProgress]_vars

C5_Witness ==
    \E r \in Runs :
        /\ run[r].pc = "done"
        /\ run[r].response = CachedReady
        /\ MapHas(sessionVectorStores, run[r].sid)

\* C6: within one run the percentages a poller reads from the session's
\* record, one per update the run has written, never decrease up to (not
\* including) the run's terminal update; and the poller reads the record of
\* the run's latest update.
C6_PercentageNonDecreasing ==
    \A r \in Runs :
        /\ \A k \in NonTerminalPairs(r) :
              ReadOf(run[r].written[k]).percentage <= ReadOf(run[r].written[k + 1]).percentage
        /\ run[r].written # <<>> => ProgressGET(run[r].sid) = ReadOf(Last(run[r].written))

C6_Witness ==
    \E r \in Runs :
        /\ run[r].pc = "indexing"
        /\ ProgressGET(run[r].sid).percentage = 70
        /\ \E k \in NonTerminalPairs(r) :
              ReadOf(run[r].written[k]).percentage < ReadOf(run[r].written[k + 1]).percentage

C9_FileFailureIsolated ==
    \A r \in Runs :
        LET rs == run[r] IN
        /\ rs.pc \in {"file", "indexing"} \/ (rs.pc = "done" /\ Len(rs.files) > 0)
            => /\ Len(rs.results) = rs.i
               /\ rs.allDocuments = ExpectedDocs(rs.files, rs.results, rs.i)
        /\ rs.pc = "indexing" \/ (rs.pc = "done" /\ Len(rs.files) > 0)
            => rs.i = Len(rs.files)
        /\ rs.pc = "done" /\ rs.response.kind = "ready"
            => sessionVectorStores[rs.sid] = ExpectedDocs(rs.files, rs.results, Len(rs.files))

C9_Witness ==
    \E r \in Runs :
        /\ run[r].pc = "done"
        /\ run[r].response.kind = "ready"
        /\ Len(run[r].files) = 2
        /\ run[r].results[1].kind = "threw"
        /\ run[r].results[2].kind = "parsed"
        /\ Len(sessionVectorStores[run[r].sid]) > 0

\* C10 as stated: when the decoder raises on file k, an errored update that
\* names file k is written, and the final record of a run that went through
\* its N files has filesProcessed = N.
C10_ExtractionFailureRecorded ==
    \A r \in Runs :
        LET rs == run[r] IN
        (rs.pc = "done" /\ rs.response.kind = "ready"
            /\ \E k \in 1..Len(rs.results) : rs.results[k].decodeThrew)
        => /\ \A k \in 1..Len(rs.results) :
                rs.results[k].decodeThrew
                => \E j \in 1..Len(rs.written) :
                        rs.written[j].status = <<"Error processing: ", rs.files[k].name>>
           /\ Last(rs.written).filesProcessed = Len(rs.files)

(***************************************************************************)
(* Properties of the chat side, checked under SpecChat.                    *)
(***************************************************************************)
\* A provider call that failed with an error the loop takes for an overload
\* ("503 ... overloaded", quota).
OverloadFailure(o) == ~o.ok /\ IsOverloadError(o.message)

\* The step is chat request c's awaited call of provider name settling.
CallSettles(c, name) ==
    /\ chat[c].pc = "invoke"
    /\ ProviderOrder[chat[c].idx] = name
    /\ Len(chat'[c].outcomes) = Len(chat[c].outcomes) + 1

\* The step takes chat request c from its retrieval into the provider loop.
EntersLoop(c) ==
    /\ chat[c].pc = "search"
    /\ \/ chat'[c].pc = "invoke"
       \/ chat'[c].pc = "done" /\ chat'[c].response.kind = "answer"

\* Every provider that chat request c invoked has failed.
AllInvokedFailed(c) ==
    /\ chat[c].pc = "done"
    /\ chat[c].response.kind = "answer"
    /\ chat[c].providersAttempted # <<>>
    /\ \A i \in 1..Len(chat[c].outcomes) : ~chat[c].outcomes[i].ok

\* The file names among the parts of an answer text.
NamesIn(content) == {part \in Range(content) : part[1] = "file"}

\* C1: when gemini's call fails with a "503 overloaded" error the step that
\* handles the failure leaves gemini marked unavailable with the full chat
\* cooldown ahead; when openai then succeeds with an answer, the response is
\* the normal payload carrying openai's answer; and a chat request that
\* enters the provider loop while that marking is in force (inside the
\* cooldown, gemini's registry entry neither re-created nor re-enabled since)
\* does not invoke gemini and goes straight to openai (to no provider when
\* openai is not usable).
C1_ProviderFallback ==
    [][\A c \in Chats :
        /\ (CallSettles(c, "gemini") /\ OverloadFailure(Last(chat'[c].outcomes)))
              => /\ MapHas(providers', "gemini")
                 /\ ~providers'["gemini"].isAvailable
                 /\ window'["gemini"] = CHAT_COOLDOWN_MS
                 /\ ~touched'["gemini"]
        /\ (/\ CallSettles(c, "openai")
            /\ chat[c].providersAttempted = ProviderOrder
            /\ OverloadFailure(chat[c].outcomes[1])
            /\ Last(chat'[c].outcomes).ok
            /\ Last(chat'[c].outcomes).text # "")
              => /\ chat'[c].pc = "done"
                 /\ chat'[c].response =
                        Payload(200, "answer", <<<<Last(chat'[c].outcomes).text, "openai">>>>,
                                Sources(chat[c].relevantDocs), ProviderOrder)
        /\ (EntersLoop(c) /\ window["gemini"] > 0 /\ ~touched["gemini"])
              => chat'[c].providersAttempted =
                     IF ProviderUsable(providers, "openai") THEN <<"openai">> ELSE <<>>
      ]_vars

\* A chat request went straight to openai while gemini was inside the
\* cooldown of a marking made by the chat route.
C1_Witness ==
    \E c \in Chats :
        /\ chat[c].pc = "invoke"
        /\ chat[c].providersAttempted = <<"openai">>
        /\ window["gemini"] > HEALTH_COOLDOWN_MS
        /\ ~touched["gemini"]

\* C2 as stated: when at least one chunk was retrieved and every invoked
\* provider failed, the handler returns the normal payload, its content is
\* non-empty and holds the name of every retrieved source file.
C2_ContentNamesRetrievedFiles ==
    \A c \in Chats :
        (AllInvokedFailed(c) /\ chat[c].relevantDocs # <<>>)
            => /\ chat[c].response.status = 200
               /\ chat[c].response.content # <<>>
               /\ \A i \in 1..Len(chat[c].relevantDocs) :
                     chat[c].relevantDocs[i].fileName \in NamesIn(chat[c].response.content)

\* C2 amended: when at least one chunk was retrieved and every invoked
\* provider failed, the handler returns the normal payload with a non-empty
\* content; the names of the retrieved files are in the payload's sources
\* list, one entry per retrieved chunk; the content itself names exactly the
\* context documents that hold the identifier when the query names one, and
\* otherwise names no file and gives the number of context documents.
C2_FallbackAnswer ==
    \A c \in Chats :
        (AllInvokedFailed(c) /\ chat[c].relevantDocs # <<>>)
            => /\ chat[c].response.status = 200
               /\ chat[c].response.content # <<>>
               /\ chat[c].response.providersAttempted = chat[c].providersAttempted
               /\ FileNamesOf(chat[c].response.sources) = FileNamesOf(chat[c].relevantDocs)
               /\ IF chat[c].query.idMatch
                  THEN NamesIn(chat[c].response.content) =
                          {d.fileName : d \in {e \in Range(chat[c].processedDocs) : holdsId(e)}}
                  ELSE /\ NamesIn(chat[c].response.content) = {}
                       /\ <<"count", Len(chat[c].processedDocs)>>
                             \in Range(chat[c].response.content)

\* Both providers were invoked and failed on a query that names no
\* identifier, with chunks of two files retrieved.
C2_Witness ==
    \E c \in Chats :
        /\ AllInvokedFailed(c)
        /\ chat[c].providersAttempted = ProviderOrder
        /\ ~chat[c].query.idMatch
        /\ Cardinality(Range(FileNamesOf(chat[c].relevantDocs))) = 2

\* C3 as stated: when at least one chunk was retrieved and no provider of
\* the order could be invoked, the response content is non-empty.
C3_NoProviderStillAnswers ==
    \A c \in Chats :
        (/\ chat[c].pc = "done"
         /\ chat[c].response.kind = "answer"
         /\ chat[c].relevantDocs # <<>>
         /\ chat[c].providersAttempted = <<>>)
            => chat[c].response.content # <<>>

\* C4 as stated: while a cooldown a provider was marked with has not
\* elapsed, the provider's registry entry is unavailable.
C4_UnavailableDuringCooldown ==
    \A n \in ProviderNames : window[n] > 0 => ~ProviderUsable(providers, n)

(***************************************************************************)
(* Properties of the query router, checked under SpecRouter.               *)
(***************************************************************************)
\* Chat request c has finished its retrieval with a non-empty selection.
Retrieved(c) == chat[c].pc \in {"invoke", "done"} /\ chat[c].relevantDocs # <<>>

\* C11 as stated: for a query that names an identifier (and is not an
\* overview query), when some chunk of the session's index holds the
\* identifier, the final selection holds such a chunk, whether or not the
\* primary search had found one.
C11_EscalationFindsChunk ==
    \A c \in Chats :
        (/\ Retrieved(c)
         /\ chat[c].query.idMatch
         /\ ~chat[c].query.isOverview
         /\ \E i \in 1..Len(sessionVectorStores[chat[c].sid]) :
                holdsId(sessionVectorStores[chat[c].sid][i]))
            => \E i \in 1..Len(chat[c].relevantDocs) : holdsId(chat[c].relevantDocs[i])

(***************************************************************************)
(* Further properties of the ingestion pipeline, checked under SpecIngest. *)
(***************************************************************************)
\* The positions of index whose chunk carries fileName and chunkIndex.
ChunksAt(index, fileName, chunkIndex) ==
    {m \in 1..Len(index) :
        index[m].fileName = fileName /\ index[m].chunkIndex = chunkIndex}

\* C12 as stated: in every stored index every chunk has
\* 0 <= chunkIndex < totalChunks, and for its fileName each of the values
\* 0..totalChunks-1 is the chunkIndex of exactly one chunk carrying that
\* fileName, and no chunk carrying it has another chunkIndex.
C12_ChunkIndexPerFileName ==
    \A s \in DOMAIN sessionVectorStores :
        LET index == sessionVectorStores[s] IN
        \A i \in 1..Len(index) :
            /\ 0 <= index[i].chunkIndex
            /\ index[i].chunkIndex < index[i].totalChunks
            /\ \A j \in 0..(index[i].totalChunks - 1) :
                  Cardinality(ChunksAt(index, index[i].fileName, j)) = 1
            /\ \A m \in 1..Len(index) :
                  index[m].fileName = index[i].fileName
                      => index[m].chunkIndex < index[i].totalChunks

\* The reply is a success that carries the zeroed "Not started" record.
NotStartedReply(reply) ==
    /\ reply.code = 200
    /\ reply.body.percentage = 0
    /\ reply.body.status = <<"Not started">>
    /\ reply.body.filesProcessed = 0
    /\ reply.body.totalFiles = 0

\* C13 as stated: for every session that has no progress update yet, each
\* of the two progress readers (GET /api/progress, POST /api/ingest) answers
\* with percentage 0, status "Not started" and zero file counts.
C13_NotStartedBeforeAnyUpdate ==
    \A s \in Sessions :
        ~MapHas(sessionProgress, s)
            => NotStartedReply(ProgressRouteGET(s)) /\ NotStartedReply(ProgressPOST(s))

\* The record is an error state: step 0 and a status that starts "ERROR: ".
IsErrorRecord(rec) ==
    /\ rec.currentStep = 0
    /\ rec.status[1] \in {"ERROR: ", "ERROR: Missing required configuration"}

\* C14: when drive.files.list returns zero files the run ends there with
\* the 200 response "No files found ...", the session's progress record
\* reads 100% with the status "No documents found in folder", the listing
\* was the run's only remote call (no file was fetched, no index built),
\* and the session has no index.
C14_ZeroFilesIsEmptyOutcome ==
    [][\A r \in Runs :
        ListReturns(r, <<>>)
            => /\ run'[r].pc = "done"
               /\ run'[r].response = Response(200, "No files found", 0, 0)
               /\ MapHas(sessionProgress', run[r].sid)
               /\ ReadOf(sessionProgress'[run[r].sid]).percentage = 100
               /\ sessionProgress'[run[r].sid].status = <<"No documents found in folder">>
               /\ run'[r].remoteCalls = 1
               /\ run'[r].results = <<>>
               /\ run'[r].allDocuments = <<>>
               /\ sessionVectorStores' = sessionVectorStores
               /\ ~MapHas(sessionVectorStores', run[r].sid)
      ]_vars

C14_Witness ==
    \E r \in Runs :
        /\ run[r].pc = "done"
        /\ run[r].response.kind = "No files found"
        /\ ProgressGET(run[r].sid).percentage = 100
        /\ ProgressGET(run[r].sid).status = <<"No documents found in folder">>

\* A required configuration value is missing.
ConfigMissing == \E k \in RequiredKeys : ~env[k]

\* C15: when a required configuration value is missing, a request for a
\* session without an index ends in its first step with the 500 response
\* and the "ERROR: Missing required configuration" record at step 0 as the
\* session's progress record; no run ever waits for a listing, a file or an
\* index construction, no remote call is made and no index is ever stored.
C15_ConfigMissingFailsFast ==
    /\ [](ConfigMissing
            => /\ sessionVectorStores = <<>>
               /\ \A r \in Runs : run[r].pc \in {"idle", "done"} /\ run[r].remoteCalls = 0)
    /\ [][\A r \in Runs :
            (ConfigMissing /\ run[r].pc = "idle" /\ run'[r].pc # "idle")
                => /\ run'[r].pc = "done"
                   /\ run'[r].response = Response(500, "config-error", 0, 0)
                   /\ MapHas(sessionProgress', run'[r].sid)
                   /\ IsErrorRecord(sessionProgress'[run'[r].sid])
                   /\ Last(run'[r].written) = sessionProgress'[run'[r].sid]
          ]_vars

C15_Witness ==
    \E r \in Runs :
        /\ ~env.GEMINI_API_KEY
        /\ run[r].pc = "done"
        /\ run[r].response.status = 500
        /\ IsErrorRecord(ProgressGET(run[r].sid))

\* C16: when drive.files.list (authentication, listing) or the index
\* construction throws, the run ends in that step with the 500 response,
\* the session's progress record is the error state written by the
\* top-level catch, and no index is stored.
C16_TopLevelCatch ==
    [][\A r \in Runs :
        ((run[r].pc = "listing" /\ ListThrows(r)) \/ (run[r].pc = "indexing" /\ IndexThrows(r)))
            => /\ run'[r].pc = "done"
               /\ run'[r].response.status = 500
               /\ run'[r].response.kind = "error"
               /\ MapHas(sessionProgress', run[r].sid)
               /\ IsErrorRecord(sessionProgress'[run[r].sid])
               /\ sessionVectorStores' = sessionVectorStores
      ]_vars

\* The index construction threw after documents had been collected.
C16_Witness ==
    \E r \in Runs :
        /\ run[r].pc = "done"
        /\ run[r].response.kind = "error"
        /\ run[r].allDocuments # <<>>
        /\ IsErrorRecord(ProgressGET(run[r].sid))
        /\ ~MapHas(sessionVectorStores, run[r].sid)

(***************************************************************************)
(* Properties of concurrent ingestion, checked under SpecRace.             *)
(***************************************************************************)
\* The session id carried by the step that ingestion request r takes.
StepSession(r) == IF run[r].pc = "idle" THEN run'[r].sid ELSE run[r].sid

\* The session-store entries of session s are the same after the step.
EntriesUnchanged(s) ==
    /\ MapHas(sessionProgress', s) <=> MapHas(sessionProgress, s)
    /\ MapHas(sessionProgress, s) => sessionProgress'[s] = sessionProgress[s]
    /\ MapHas(sessionVectorStores', s) <=> MapHas(sessionVectorStores, s)
    /\ MapHas(sessionVectorStores, s) => sessionVectorStores'[s] = sessionVectorStores[s]

\* C17: every step of an ingestion request that carries session id A
\* leaves the progress record and the index of every other session id as
\* they were (present or absent), whatever the other request in flight is
\* doing.
C17_SessionsDoNotInterfere ==
    [][\A r \in Runs :
        run'[r] # run[r]
            => \A s \in Sessions \ {StepSession(r)} : EntriesUnchanged(s)
      ]_vars

\* Two requests for different sessions are in flight and both sessions have
\* a progress record, each the last one its own request wrote.
C17_Witness ==
    /\ run["r1"].pc = "file"
    /\ run["r2"].pc = "indexing"
    /\ run["r1"].sid # run["r2"].sid
    /\ sessionProgress[run["r1"].sid] = Last(run["r1"].written)
    /\ sessionProgress[run["r2"].sid] = Last(run["r2"].written)

\* C18: a session's stored progress record only ever changes to the
\* complete record of the last updateProgress call of the step that changed
\* it, made by a request for that session; and a reader gets the zeroed
\* default when there is no record, and otherwise the stored record field
\* for field (the recomputed percentage equals the stored one).
C18_ReaderSeesWholeRecords ==
    /\ [](\A s \in Sessions :
            IF MapHas(sessionProgress, s)
            THEN ProgressGET(s) = sessionProgress[s]
            ELSE ProgressGET(s) = ProgressData(0, <<"Not started">>, NoFile, 0, 0))
    /\ [][\A s \in Sessions :
            (MapHas(sessionProgress', s)
                /\ (MapHas(sessionProgress, s) => sessionProgress'[s] # sessionProgress[s]))
             => \E r \in Runs :
                    /\ StepSession(r) = s
                    /\ Len(run'[r].written) > Len(run[r].written)
                    /\ sessionProgress'[s] = Last(run'[r].written)
          ]_vars

\* Two requests for the same session are in flight; the reader gets the
\* last record of one of them, which is not the last record of the other.
C18_Witness ==
    /\ run["r1"].sid = run["r2"].sid
    /\ run["r1"].pc = "file"
    /\ run["r2"].pc = "indexing"
    /\ ProgressGET(run["r1"].sid) = Last(run["r1"].written)
    /\ ProgressGET(run["r1"].sid) # Last(run["r2"].written)

\* C19 as stated: once an index is stored for a session id, no step
\* replaces or changes it.
C19_IndexImmutable ==
    [][\A s \in Sessions :
        MapHas(sessionVectorStores, s)
            => /\ MapHas(sessionVectorStores', s)
               /\ sessionVectorStores'[s] = sessionVectorStores[s]
      ]_vars

(***************************************************************************)
(* A further property of the progress records, checked under SpecIngest.   *)
(***************************************************************************)
\* C20: every stored progress record, and every record an ingestion run
\* has written, has filesProcessed <= totalFiles.
C20_ProcessedAtMostTotal ==
    /\ \A s \in DOMAIN sessionProgress :
          sessionProgress[s].filesProcessed <= sessionProgress[s].totalFiles
    /\ \A r \in Runs : \A k \in 1..Len(run[r].written) :
          run[r].written[k].filesProcessed <= run[r].written[k].totalFiles

\* A run over a folder of two has written the record that counts both files
\* as processed, and its latest record is the stored one.
C20_Witness ==
    \E r \in Runs :
        /\ \E k \in 1..Len(run[r].written) :
              /\ run[r].written[k].totalFiles = 2
              /\ run[r].written[k].filesProcessed = 2
        /\ run[r].sid \in DOMAIN sessionProgress
        /\ sessionProgress[run[r].sid] = Last(run[r].written)

(***************************************************************************)
(* Properties of the content extractor, checked under SpecExtract.         *)
(***************************************************************************)
ListedMimeTypes == {PDF, DOCX, XLSX, XLS, PLAIN}

\* Call p settles in this step.
Settles(p) == parse[p].pc # "settled" /\ parse'[p].pc = "settled"

\* The decoder of call p settles with d in this step.
DecoderSettles(p, d) ==
    \/ ParseDocxDecoded(p, d)
    \/ \E u1 \in UnlinkOutcomes, u2 \in UnlinkOutcomes : ParsePdfLoaded(p, d, u1, u2)
    \/ \E m \in {XLSX, XLS}, n \in ExtractNames : ParseSync(p, m, n, d)

Loading(path) ==
    {p \in Calls : parse[p].pc = "load" /\ tempFilePath(parse[p].fileName) = path}

\* C22: once a PDF extraction has returned, on the success path and on every
\* failure path, the temp file it wrote is gone: a temp file that exists was
\* written only by calls that have not returned yet.
C22_TempFileRemoved ==
    \A path \in TempPaths : tmpdir[path] \subseteq Loading(path)

(***************************************************************************)
(* A property of the readers, checked under SpecServe.                     *)
(***************************************************************************)
\* C24: no request to the progress route, the progress lookup, the chat
\* route or the health route creates, changes or deletes a progress record
\* or a vector index, whatever session id it carries.
C24_ReadersWriteNothing ==
    [][UNCHANGED <<sessionProgress, sessionVectorStores>>]_vars

\* The progress reader has got the default for a session without a record,
\* a chat request has been answered from the index and a health request has
\* finished, and the records and indexes are those of the ingestion.
C24_Witness ==
    /\ poll = Reply(200, ProgressData(0, <<"Not started">>, NoFile, 0, 0))
    /\ \E c \in Chats : chat[c].pc = "done" /\ chat[c].response.status = 200
                            /\ chat[c].relevantDocs # <<>>
    /\ \E h \in Healths : health[h].pc = "done"
    /\ DOMAIN sessionProgress = {"s1"}
    /\ DOMAIN sessionVectorStores = {"s1"}

(***************************************************************************)
(* Further properties of the chat route, checked under SpecChat.           *)
(***************************************************************************)
\* C25: every chat response that reports a failure (a status of 400 or
\* more) carries a message in its content field.
C25_FailureCarriesMessage ==
    \A c \in Chats :
        chat[c].pc = "done" /\ chat[c].response.status >= 400
            => chat[c].response.content # <<>>

\* The position in the provider order that chat request c has reached.
Reached(c) == IF chat[c].pc = "invoke" THEN chat[c].idx ELSE 0

\* The step makes chat request c invoke a provider.
Invokes(c) ==
    /\ chat[c].pc \in {"search", "invoke"}
    /\ chat'[c].pc = "invoke"
    /\ Len(chat'[c].providersAttempted) > Len(chat[c].providersAttempted)

\* C26: in one chat request the providers are attempted in the fixed order.
\* A provider is invoked only if it is in the registry and available when
\* the loop reaches it, every provider invoked before it has failed
\* (whatever its error) and every provider passed over was not usable; a
\* call that succeeds ends the loop with no further provider invoked; and
\* providersAttempted of the response is the invoked providers, in order.
C26_ProvidersInOrder ==
    [][\A c \in Chats :
        /\ Invokes(c) =>
              LET k == chat'[c].idx
              IN  /\ k > Reached(c)
                  /\ ProviderUsable(providers', ProviderOrder[k])
                  /\ chat'[c].providersAttempted =
                        Append(chat[c].providersAttempted, ProviderOrder[k])
                  /\ Len(chat'[c].outcomes) = Len(chat[c].providersAttempted)
                  /\ \A i \in 1..Len(chat'[c].outcomes) : ~chat'[c].outcomes[i].ok
                  /\ \A j \in (Reached(c) + 1)..(k - 1) :
                        ~ProviderUsable(providers', ProviderOrder[j])
        /\ \A name \in ProviderNames :
              CallSettles(c, name) /\ Last(chat'[c].outcomes).ok =>
                  /\ chat'[c].pc = "done"
                  /\ chat'[c].providersAttempted = chat[c].providersAttempted
                  /\ Last(chat[c].providersAttempted) = name
        /\ chat'[c].pc = "done" /\ chat'[c].response.kind = "answer" =>
              /\ chat'[c].response.providersAttempted = chat'[c].providersAttempted
              /\ Len(chat'[c].outcomes) = Len(chat'[c].providersAttempted)
              /\ chat'[c].providersAttempted \in
                    {<<>>, <<"gemini">>, <<"openai">>, <<"gemini", "openai">>}
      ]_vars

\* A request answered by openai after gemini failed with a timeout, which is
\* no overload error: both are in providersAttempted, in order.
C26_Witness ==
    \E c \in Chats :
        /\ chat[c].pc = "done"
        /\ chat[c].response.providersAttempted = <<"gemini", "openai">>
        /\ chat[c].outcomes[1].message = <<"timeout", "after", "20s">>
        /\ chat[c].outcomes[2].ok

\* C27: whenever a provider's call fails with a message that carries an
\* overload, quota or rate-limit signature ("503", "overloaded", "quota",
\* "429", "rate limit"), the provider is unavailable after the step, with
\* the cooldown ahead; a failure without such a signature leaves the
\* provider's registry entry as it was.
C27_SignatureMarksProvider ==
    [][\A c \in Chats : \A name \in ProviderNames :
        (CallSettles(c, name) /\ ~Last(chat'[c].outcomes).ok /\ MapHas(providers, name)) =>
            IF isGeminiOverloaded(Last(chat'[c].outcomes).message)
            THEN /\ ~providers'[name].isAvailable
                 /\ window'[name] = CHAT_COOLDOWN_MS
            ELSE providers'[name] = providers[name]
      ]_vars

(***************************************************************************)
(* Further properties of the ingestion pipeline, checked under SpecIngest. *)
(***************************************************************************)
\* The updates of the per-file loop: those of step 5 that name a file.
IsPerFileUpdate(rec) == rec.currentStep = 5 /\ rec.currentFile # NoFile

PerFileUpdates(r) == SelectSeq(run[r].written, IsPerFileUpdate)

\* C28: the files are handled one after another in listing order.  The
\* per-file updates a run has written are, in this order, "Processing" of
\* file 1, the completion update of file 1, "Processing" of file 2, the
\* completion update of file 2, ...; the completion update of the i-th file
\* is "Error processing" when the file failed and "Processed" when it was
\* parsed (blank or not), and its filesProcessed is i.
C28_FilesInListingOrder ==
    \A r \in Runs :
        LET updates == PerFileUpdates(r)
            files == run[r].files
        IN  /\ Len(updates) = 2 * run[r].i + (IF run[r].pc = "file" THEN 1 ELSE 0)
            /\ Len(run[r].results) = run[r].i
            /\ \A k \in 1..Len(updates) :
                  LET i == (k + 1) \div 2
                  IN  IF k % 2 = 1
                      THEN updates[k] = ProcessingUpdate(files, i - 1)
                      ELSE /\ updates[k] = IF run[r].results[i].kind = "threw"
                                           THEN FileErrorUpdate(files, i - 1)
                                           ELSE ProcessedUpdate(files, i - 1)
                           /\ updates[k].filesProcessed = i
                           /\ updates[k].currentFile = files[i].name

\* A run over two files of different names: the first failed, the second was
\* blank, and the four per-file updates are written.
C28_Witness ==
    \E r \in Runs :
        /\ Len(run[r].files) = 2
        /\ run[r].files[1].name # run[r].files[2].name
        /\ run[r].i = 2
        /\ run[r].results[1].kind = "threw"
        /\ run[r].results[2].kind = "parsed"
        /\ run[r].results[2].content = <<>>
        /\ Len(PerFileUpdates(r)) = 4

(***************************************************************************)
(* Termination of the ingestion pipeline, checked under SpecLive.          *)
(***************************************************************************)
\* The run is waiting for a call to the document source or to the embedding
\* provider.
InFlight(r) == run[r].pc \in {"listing", "file", "indexing"}

\* The run has ended with one of the terminal outcomes and its last update
\* is the terminal one of that outcome.
TerminalOutcome(r) ==
    LET kind == run[r].response.kind
        last == Last(run[r].written)
    IN  /\ run[r].written # <<>>
        /\ sessionProgress[run[r].sid] = last
        /\ CASE kind = "ready" ->
                    /\ run[r].response.status = 200
                    /\ ReadOf(last).percentage = 100
                    /\ MapHas(sessionVectorStores, run[r].sid)
             [] kind \in {"No files found", "No processable content"} ->
                    /\ run[r].response.status = 200
                    /\ ReadOf(last).percentage = 100
             [] kind \in {"error", "config-error"} ->
                    /\ run[r].response.status = 500
                    /\ IsErrorRecord(last)
             [] OTHER -> FALSE

\* C29: with calls that eventually return or throw, every ingestion run that
\* has passed the cache check eventually ends, and it ends with one terminal
\* outcome, ready, empty or error, whose terminal update is the last one the
\* run wrote: 100% for ready and empty, an error record for error.
C29_RunReachesTerminalOutcome ==
    /\ \A r \in SerialRuns : InFlight(r) ~> (run[r].pc = "done")
    /\ [](\A r \in SerialRuns :
            (run[r].pc = "done" /\ run[r].response.kind # "ready-cached")
                    => TerminalOutcome(r))

\* A run over two files, one of which failed, has ended ready.
C29_Witness ==
    \E r \in SerialRuns :
        /\ run[r].pc = "done"
        /\ run[r].response.kind = "ready"
        /\ Len(run[r].files) = 2
        /\ \E k \in 1..2 : run[r].results[k].kind = "threw"

PastFileStage == route.pc \in {"all", "alt", "done"}

\* The outcome of the file-name stage for a query that names a file: the
\* primary results unchanged when one of them is of that file; otherwise a
\* search of 20 was made and, if it returned chunks of that file, the list
\* is those chunks followed by the first two primary results at most, and
\* the primary results unchanged if it returned none.
FileStageEscalates ==
    LET fileMatchedDocs == SelectSeq(route.expanded, fileNameIncludes)
    IN  IF hasTargetDoc(route.primary)
        THEN route.expanded = <<>> /\ route.afterFile = route.primary
        ELSE /\ route.expanded \in
                    {similaritySearch(sessionVectorStores[route.sid], 20, p) :
                        p \in Rankings(sessionVectorStores[route.sid])}
             /\ IF Len(fileMatchedDocs) > 0
                THEN /\ route.afterFile = fileMatchedDocs \o Slice(route.primary, 2)
                     /\ Len(route.afterFile) <= Len(fileMatchedDocs) + 2
                ELSE route.afterFile = route.primary

\* C31 as stated: the file-name stage has that outcome for every query that
\* names a file.
C31_EveryFileQueryEscalates ==
    (PastFileStage /\ route.query.fileNameMatch) => FileStageEscalates

\* C31: the file-name stage has that outcome for every query that names a
\* file and is not an overview query; for an overview query, and for a query
\* that names no file, no search of 20 is made and the primary results are
\* kept.
C31_FileQueryEscalates ==
    PastFileStage =>
        IF route.query.fileNameMatch /\ ~route.query.isOverview
        THEN FileStageEscalates
        ELSE route.expanded = <<>> /\ route.afterFile = route.primary

\* A query named a file that none of its three primary results was of; the
\* search of 20 found a chunk of the file, and the list is that chunk and
\* the first two primary results.
C31_Witness ==
    /\ PastFileStage
    /\ route.query.fileNameMatch
    /\ Len(route.primary) = 3
    /\ ~hasTargetDoc(route.primary)
    /\ hasTargetDoc(route.expanded)
    /\ Len(route.afterFile) = Len(SelectSeq(route.expanded, fileNameIncludes)) + 2
    /\ fileNameIncludes(route.afterFile[1])

(***************************************************************************)
(* The percentage ranges of the progress documentation, checked under      *)
(* SpecIngest.                                                             *)
(***************************************************************************)
\* The range the documentation gives to the phase an update is written in,
\* the update identified by its status text.  An update written on the
\* border of two phases, and one written by an error path, is given every
\* percentage the documentation could mean for it.
DocumentedRange(rec) ==
    CASE rec.status[1] \in {"Initializing connection to Google Drive...",
                            "Creating Google Drive authentication...",
                            "ERROR: Missing required configuration"} -> 0..10
      [] rec.status[1] = "Connecting to Google Drive API..." -> 0..40
      [] rec.status[1] = "Scanning documents in folder..." -> 10..40
      [] rec.status[1] = "Found documents" -> 10..90
      [] rec.status[1] \in {"Processing documents...", "Processing: ", "Processed: ",
                            "Error processing: "} -> 40..90
      [] rec.status[1] = "Creating searchable index" -> 90..95
      [] rec.status[1] = "Finalizing document index..." -> 90..100
      [] rec.status[1] \in {"Successfully processed", "No documents found in folder",
                            "No processable content found"} -> 95..100
      [] OTHER -> 0..100

\* C32: every progress record an ingestion run writes has a percentage in
\* the range the progress documentation gives to the phase it is written
\* in: 0-10 initialization, 10-40 discovery, 40-90 per-file processing,
\* 90-95 vector store creation, 95-100 completion.
C32_PercentageInDocumentedRange ==
    \A r \in Runs : \A k \in 1..Len(run[r].written) :
        run[r].written[k].percentage \in DocumentedRange(run[r].written[k])

(***************************************************************************)
(* Properties of the prompt configuration loader, checked under SpecPrompt.*)
(***************************************************************************)
\* C33: loadPromptConfig never throws and caches its result.  A call
\* returns a configuration; it re-reads the file when forced, when nothing
\* is cached (as after invalidateConfigCache), in development always, and
\* in production when the cached configuration was loaded a minute or more
\* ago, and returns the cached configuration otherwise; a call that reads
\* the file returns what the file holds, or the embedded default when the
\* load fails.
C33_ConfigCache ==
    LET call == prompt.call
    IN  call.made =>
            /\ call.returned # NoConfig
            /\ call.read <=> \/ call.forceRefresh
                             \/ call.cachedBefore = NoConfig
                             \/ prompt.nodeEnv = "development"
                             \/ call.age >= cacheValidMs
            /\ call.read => call.returned = IF ReadConfig(call.file).threw
                                            THEN DEFAULT_CONFIG
                                            ELSE ReadConfig(call.file).config
            /\ ~call.read => call.returned = call.cachedBefore

(***************************************************************************)
(* Properties of the provider cooldowns, checked under SpecCooldown.       *)
(***************************************************************************)
\* C34: under fair firing of the re-enable timers, whenever the descriptor
\* the registry holds for a provider name has isAvailable false, whatever
\* markings and re-initializations came before, the descriptor the registry
\* holds for that name later has isAvailable true.
C34_MarkedProviderReturns ==
    \A n \in ProviderNames :
        (MapHas(providers, n) /\ ~providers[n].isAvailable)
            ~> (MapHas(providers, n) /\ providers[n].isAvailable)

\* gemini has been marked by a chat request and by a health check and is
\* unavailable, with the timers of both markings pending.
C34_Witness ==
    /\ MapHas(providers, "gemini")
    /\ ~providers["gemini"].isAvailable
    /\ Cardinality({t \in timers : t.name = "gemini"}) = 2
    /\ window["gemini"] = CHAT_COOLDOWN_MS

(***************************************************************************)
(* Properties of the stored index, checked under SpecIngest.               *)
(***************************************************************************)
\* C35: a session gets an index, or another index in place of the one it
\* has, only in the step in which a run for that
\* session completes index construction: the index is all the chunks the
\* run accumulated, at least one, and the run's outcome is ready.  No step
\* of a run that ends in the empty outcome, a configuration error or the
\* top-level error path stores an index.
C35_IndexOnlyFromCompleteBuild ==
    [][\A s \in Sessions :
        (/\ MapHas(sessionVectorStores', s)
         /\ ~MapHas(sessionVectorStores, s) \/ sessionVectorStores'[s] # sessionVectorStores[s])
            => \E r \in Runs :
                /\ run[r].sid = s
                /\ run[r].pc = "indexing"
                /\ run'[r].pc = "done"
                /\ run'[r].response.kind = "ready"
                /\ run'[r].response.totalChunks = Len(sessionVectorStores'[s])
                /\ sessionVectorStores'[s] = run[r].allDocuments
                /\ Len(run[r].allDocuments) > 0
      ]_vars

\* A run over a folder of two files has completed index construction and
\* the session's index is the chunks of both files.
C35_Witness ==
    \E r \in Runs :
        /\ run[r].pc = "done"
        /\ run[r].response.kind = "ready"
        /\ Len(run[r].files) = 2
        /\ MapHas(sessionVectorStores, run[r].sid)
        /\ sessionVectorStores[run[r].sid] = run[r].allDocuments
        /\ \E i, j \in 1..Len(run[r].allDocuments) :
              run[r].allDocuments[i].fileName # run[r].allDocuments[j].fileName

(***************************************************************************)
(* The success record and the stored index, checked under SpecRace, where  *)
(* two runs for one session interleave.                                    *)
(***************************************************************************)
\* The stored progress record of session s is a final success update.
ShowsSuccess(s) ==
    /\ MapHas(sessionProgress, s)
    /\ sessionProgress[s].currentStep = TOTAL_STEPS
    /\ sessionProgress[s].status[1] = "Successfully processed"

\* C36: whenever the progress record of a session shows the final success
\* update, the session has a stored index, which is the one the update
\* reports: a chat request for the session made from then on finds it.
C36_SuccessImpliesIndex ==
    \A s \in Sessions :
        ShowsSuccess(s) =>
            /\ MapHas(sessionVectorStores, s)
            /\ Len(sessionVectorStores[s]) = sessionProgress[s].status[3]

\* One run for a session has ended with the success update while another
\* run for the same session is still under way; the record shows success
\* and the index is stored.
C36_Witness ==
    \E r, q \in Runs :
        /\ r # q
        /\ run[r].sid = run[q].sid
        /\ run[r].pc = "done"
        /\ run[r].response.kind = "ready"
        /\ run[q].pc \notin {"idle", "done"}
        /\ ShowsSuccess(run[r].sid)
        /\ MapHas(sessionVectorStores, run[r].sid)

(***************************************************************************)
(* Concurrent extractions of one file name, checked under SpecExtract.     *)
(***************************************************************************)
\* How the PDF branch of call p ends after its load settled with d, when no
\* other call touches the temp directory: the file p wrote is there when p
\* unlinks it.
AlonePdfOutcome(p, fileName, d, u1, u2) ==
    LET dir == [path \in TempPaths |-> IF path = tempFilePath(fileName) THEN {p} ELSE {}]
        cleaned == unlinkSync(dir, tempFilePath(fileName), u1)
    IN  IF d.throws THEN PdfCatch(dir, fileName, d.thrown, u1).outcome
        ELSE IF ~cleaned.threw THEN Returned(Decoded(d.text))
        ELSE PdfCatch(cleaned.dir, fileName, cleaned.thrown, u2).outcome

\* C37: a PDF extraction that runs while another extraction of the same
\* file name is in flight ends as it can end when it runs alone: when its
\* load settles, its outcome is the outcome of a call running alone whose
\* loader and file system calls gave the same results.
C37_SameNameExtractionsIndependent ==
    [][\A p \in Calls :
        (parse[p].pc = "load" /\ parse'[p].pc = "settled")
            => \E d \in DecoderOutcomes, u1 \in UnlinkOutcomes, u2 \in UnlinkOutcomes :
                  parse'[p].outcome = AlonePdfOutcome(p, parse[p].fileName, d, u1, u2)
      ]_vars

(***************************************************************************)
(* The answer for a session without an index, checked under SpecChat.      *)
(***************************************************************************)
\* C38: the response to a chat request for a session is the same whichever
\* other sessions exist in the session store.  For a session that has no
\* index: the response is the one the request gets when no session has an
\* index, which holds the text and the request's own session id only.
C38_ResponseIgnoresOtherSessions ==
    \A c \in Chats :
        (chat[c].pc = "done" /\ chat[c].response.kind = "no-index")
            => chat[c].response =
                    Payload(200, "no-index",
                            << <<"text", "no documents yet">>, <<"Session ID: ", chat[c].sid>> >>,
                            <<>>, <<>>)

(***************************************************************************)
(* Duplicates in the retrieved list, checked under SpecRoute.              *)
(***************************************************************************)
\* The chunks docs[i] and docs[j] are the same chunk of the index.
SameChunk(docs, i, j) ==
    /\ docs[i].fileId = docs[j].fileId
    /\ docs[i].chunkIndex = docs[j].chunkIndex

\* C39: the list of relevant chunks a chat request ends its retrieval with,
\* after the file-name escalation, the identifier escalation and the
\* alternative-term retries, holds no chunk twice.
C39_NoDuplicateChunks ==
    route.pc = "done" =>
        \A i, j \in 1..Len(route.relevantDocs) :
            i # j => ~SameChunk(route.relevantDocs, i, j)

====
